---- MODULE Spec2Model ----
(***************************************************************************)
(* labpubs: deduplication and metadata merge of scholarly works.           *)
(*                                                                         *)
(* Text is modelled as sequences of Unicode code points, so that the       *)
(* normalisers and the token-sort score are computed character by          *)
(* character as the Python code computes them.                             *)
(***************************************************************************)
EXTENDS Integers, Sequences, FiniteSets, TLC

(***************************************************************************)
(* Absent values: Python's None, encoded as a one-element sequence that is *)
(* no string (code points are >= 0) and no Some(n) (n >= 0).               *)
(***************************************************************************)
None == <<-1>>

(***************************************************************************)
(* Characters are code points.  The modelled alphabet: ASCII, with 9..13   *)
(* and 32 as whitespace; 233 / 201 (e / E with acute accent), which NFKD   *)
(* decomposes into the letter and the combining acute accent 769; and 8482 *)
(* (the trade mark sign), which NFKD decomposes into "TM".                 *)
(***************************************************************************)
IsUpper(c) == c \in 65..90

IsSpace(c) == c \in {9, 10, 11, 12, 13, 32}

\* \w of Python's re on str: letters, digits and underscore
IsWord(c) == \/ c \in 48..57
             \/ c \in 65..90
             \/ c \in 97..122
             \/ c = 95
             \/ c \in {201, 233}

\* unicodedata.combining(c) # 0
IsCombining(c) == c \in 768..879

\* str.lower() on one character
LowerChar(c) == IF IsUpper(c) THEN c + 32
                ELSE IF c = 201 THEN 233
                ELSE c

\* unicodedata.normalize("NFKD", c) on one character
NFKDChar(c) == IF c = 233 THEN <<101, 769>>
               ELSE IF c = 201 THEN <<69, 769>>
               ELSE IF c = 8482 THEN <<84, 77>>
               ELSE <<c>>

\* the smaller of the two instead
Max_min(a, b) == IF a >= b THEN b ELSE a

Max(a, b) == IF a >= b THEN a ELSE b

(***************************************************************************)
(* String helpers: str.lower, str.strip, str.split, " ".join.              *)
(***************************************************************************)
Lower(s) == [i \in 1..Len(s) |-> LowerChar(s[i])]

RECURSIVE LStrip(_)
LStrip(s) == IF s # <<>> /\ IsSpace(Head(s)) THEN LStrip(Tail(s)) ELSE s

RECURSIVE RStrip(_)
RStrip(s) == IF s # <<>> /\ IsSpace(s[Len(s)])
             THEN RStrip(SubSeq(s, 1, Len(s) - 1))
             ELSE s

Strip(s) == RStrip(LStrip(s))

\* str.split(): the maximal runs of non-whitespace characters, in order
RECURSIVE SplitFrom(_, _, _)
SplitFrom(s, cur, acc) ==
    IF s = <<>>
    THEN IF cur = <<>> THEN acc ELSE Append(acc, cur)
    ELSE IF IsSpace(Head(s))
         THEN SplitFrom(Tail(s), <<>>,
                        IF cur = <<>> THEN acc ELSE Append(acc, cur))
         ELSE SplitFrom(Tail(s), Append(cur, Head(s)), acc)

Split(s) == SplitFrom(s, <<>>, <<>>)

RECURSIVE JoinSp(_)
JoinSp(toks) == IF toks = <<>> THEN <<>>
                ELSE IF Len(toks) = 1 THEN toks[1]
                ELSE toks[1] \o <<32>> \o JoinSp(Tail(toks))

RECURSIVE Flatten(_)
Flatten(ss) == IF ss = <<>> THEN <<>> ELSE Head(ss) \o Flatten(Tail(ss))

\* re.sub(r"\s+", " ", s): every maximal whitespace run becomes one space
RECURSIVE CollapseWs(_, _)
CollapseWs(s, inRun) ==
    IF s = <<>> THEN <<>>
    ELSE IF IsSpace(Head(s))
         THEN (IF inRun THEN <<>> ELSE <<32>>) \o CollapseWs(Tail(s), TRUE)
         ELSE <<Head(s)>> \o CollapseWs(Tail(s), FALSE)

\* re.sub(r"^https?://doi\.org/", "", s)
HttpDoiPrefix == <<104, 116, 116, 112, 58, 47, 47, 100, 111, 105, 46, 111, 114, 103, 47>>

HttpsDoiPrefix == <<104, 116, 116, 112, 115, 58, 47, 47, 100, 111, 105, 46, 111, 114, 103, 47>>

HasPrefix(s, p) == Len(s) >= Len(p) /\ SubSeq(s, 1, Len(p)) = p

StripDoiPrefix(s) ==
    IF HasPrefix(s, HttpsDoiPrefix) THEN SubSeq(s, Len(HttpsDoiPrefix) + 1, Len(s))
    ELSE IF HasPrefix(s, HttpDoiPrefix) THEN SubSeq(s, Len(HttpDoiPrefix) + 1, Len(s))
    ELSE s

(***************************************************************************)
(* normalize.py / dedup.py normalisers.                                    *)
(***************************************************************************)
\* split_author_name that takes the first token alone as the given names
split_author_name_first_given(name) ==
    LET parts == Split(Strip(name))
    IN IF parts = <<>> THEN <<None, None>>
       ELSE IF Len(parts) = 1 THEN <<None, parts[1]>>
       ELSE <<parts[1], parts[Len(parts)]>>

\* the pair <<given_names, family_name>>
split_author_name(name) ==
    LET parts == Split(Strip(name))
    IN IF parts = <<>> THEN <<None, None>>
       ELSE IF Len(parts) = 1 THEN <<None, parts[1]>>
       ELSE <<JoinSp(SubSeq(parts, 1, Len(parts) - 1)), parts[Len(parts)]>>

\* normalize_doi that removes the prefix before it trims
normalize_doi_prefix_first(doi) ==
    IF doi = None THEN None
    ELSE LET d == Strip(StripDoiPrefix(Lower(doi)))
         IN IF d = <<>> THEN None ELSE d

normalize_doi(doi) ==
    IF doi = None THEN None
    ELSE LET d == StripDoiPrefix(Strip(Lower(doi)))
         IN IF d = <<>> THEN None ELSE d

normalize_title(title) ==
    LET lowered  == Strip(Lower(title))
        nfkd     == Flatten([i \in 1..Len(lowered) |-> NFKDChar(lowered[i])])
        nomarks  == SelectSeq(nfkd, LAMBDA c : ~IsCombining(c))
        nopunct  == SelectSeq(nomarks, LAMBDA c : IsWord(c) \/ IsSpace(c))
    IN Strip(CollapseWs(nopunct, FALSE))

(***************************************************************************)
(* rapidfuzz.fuzz.token_sort_ratio: the tokens of each string are sorted   *)
(* and joined by one space, and the score is                               *)
(*   100 * 2 * LCS / (len1 + len2)    (100 when both strings are empty).   *)
(* The score is kept as the exact fraction sim / len.                      *)
(***************************************************************************)
RECURSIVE SeqLess(_, _)
SeqLess(a, b) ==
    IF b = <<>> THEN FALSE
    ELSE IF a = <<>> THEN TRUE
    ELSE IF Head(a) # Head(b) THEN Head(a) < Head(b)
    ELSE SeqLess(Tail(a), Tail(b))

RECURSIVE InsertSorted(_, _)
InsertSorted(tok, sorted) ==
    IF sorted = <<>> THEN <<tok>>
    ELSE IF SeqLess(tok, Head(sorted)) THEN <<tok>> \o sorted
    ELSE <<Head(sorted)>> \o InsertSorted(tok, Tail(sorted))

RECURSIVE SortTokens(_)
SortTokens(toks) == IF toks = <<>> THEN <<>>
                    ELSE InsertSorted(Head(toks), SortTokens(Tail(toks)))

RECURSIVE LcsRow(_, _, _, _)
LcsRow(prev, c, t, acc) ==
    IF Len(acc) = Len(t) + 1 THEN acc
    ELSE LET j == Len(acc)
         IN LcsRow(prev, c, t,
                   Append(acc, IF c = t[j] THEN prev[j] + 1
                               ELSE Max(prev[j + 1], acc[j])))

RECURSIVE LcsRows(_, _, _)
LcsRows(s, t, prev) ==
    IF s = <<>> THEN prev
    ELSE LcsRows(Tail(s), t, LcsRow(prev, Head(s), t, <<0>>))

LcsTable(s, t) == LcsRows(s, t, [j \in 1..(Len(t) + 1) |-> 0])[Len(t) + 1]

\* length of the common prefix / suffix, removed before the table is filled
RECURSIVE CommonPrefix(_, _, _)
CommonPrefix(s, t, n) ==
    IF n < Len(s) /\ n < Len(t) /\ s[n + 1] = t[n + 1]
    THEN CommonPrefix(s, t, n + 1)
    ELSE n

RECURSIVE CommonSuffix(_, _, _, _)
CommonSuffix(s, t, lo, n) ==
    IF lo + n < Len(s) /\ lo + n < Len(t) /\ s[Len(s) - n] = t[Len(t) - n]
    THEN CommonSuffix(s, t, lo, n + 1)
    ELSE n

LCS(s, t) ==
    LET p == CommonPrefix(s, t, 0)
        q == CommonSuffix(s, t, p, 0)
    IN p + q + LcsTable(SubSeq(s, p + 1, Len(s) - q),
                        SubSeq(t, p + 1, Len(t) - q))

token_sort_ratio(s1, s2) ==
    LET a == JoinSp(SortTokens(Split(s1)))
        b == JoinSp(SortTokens(Split(s2)))
    IN [sim |-> 2 * LCS(a, b), len |-> Len(a) + Len(b)]

\* score >= threshold, with score = 100 * sim / len
ScoreAtLeast(score, threshold) ==
    IF score.len = 0 THEN 100 >= threshold
    ELSE 100 * score.sim >= threshold * score.len

(***************************************************************************)
(* Optional integers and booleans: None or <<n>> (a boolean as 0 or 1).    *)
(***************************************************************************)
Some(n) == <<n>>

\* Python truthiness of an optional string / an optional integer / a list
TruthyStr(x) == x # None /\ x # <<>>

TruthyInt(x) == x # None /\ x # Some(0)

(***************************************************************************)
(* models.py: Work.  Authors carry their name; sources, awards and funders *)
(* are lists.                                                              *)
(***************************************************************************)
WT_OTHER == "other"

Author(name) == [name |-> name]

Work(doi, title, authors, year) ==
    [doi |-> doi, title |-> title, authors |-> authors,
     publication_date |-> None, year |-> year, venue |-> None,
     work_type |-> WT_OTHER, abstract |-> None,
     openalex_id |-> None, semantic_scholar_id |-> None,
     open_access |-> None, open_access_url |-> None,
     citation_count |-> None, tldr |-> None,
     awards |-> <<>>, funders |-> <<>>,
     linked_resources |-> <<>>,
     verified |-> FALSE, verified_by |-> None, verified_at |-> None,
     verification_issue_url |-> None, notes |-> None,
     sources |-> <<>>, first_seen |-> None, last_updated |-> None]

(***************************************************************************)
(* dedup.py: _extract_surnames and find_match.                             *)
(* A summary is the tuple <<id, title_normalized, doi, year, surnames>>.   *)
(***************************************************************************)
RECURSIVE SurnamesOf(_)
SurnamesOf(authors) ==
    IF authors = <<>> THEN {}
    ELSE LET parts == Split(Strip(Head(authors).name))
         IN (IF parts # <<>> THEN {Lower(parts[Len(parts)])} ELSE {})
            \cup SurnamesOf(Tail(authors))

_extract_surnames(work) == SurnamesOf(work.authors)

SeqToSet(s) == {s[i] : i \in 1..Len(s)}

\* Tier 1 loop: the first summary whose DOI is truthy and equal
RECURSIVE ScanDoi(_, _)
ScanDoi(candidate_doi, existing_works) ==
    IF existing_works = <<>> THEN None
    ELSE LET w == Head(existing_works)
         IN IF TruthyStr(w[3]) /\ w[3] = candidate_doi
            THEN Some(w[1])
            ELSE ScanDoi(candidate_doi, Tail(existing_works))

\* ScanTitle with a strict comparison (score > threshold)
RECURSIVE ScanTitle_strict(_, _, _)
ScanTitle_strict(candidate_title, existing_works, title_threshold) ==
    IF existing_works = <<>> THEN None
    ELSE LET w == Head(existing_works)
             score == token_sort_ratio(candidate_title, w[2])
         IN IF score.len # 0 /\ 100 * score.sim > title_threshold * score.len
            THEN Some(w[1])
            ELSE ScanTitle_strict(candidate_title, Tail(existing_works),
                                  title_threshold)

\* Tier 2 loop: the first summary whose score reaches the threshold
RECURSIVE ScanTitle(_, _, _)
ScanTitle(candidate_title, existing_works, title_threshold) ==
    IF existing_works = <<>> THEN None
    ELSE LET w == Head(existing_works)
         IN IF ScoreAtLeast(token_sort_ratio(candidate_title, w[2]),
                            title_threshold)
            THEN Some(w[1])
            ELSE ScanTitle(candidate_title, Tail(existing_works),
                           title_threshold)

FallbackThreshold == 80

\* ScanFallback without the year comparison
RECURSIVE ScanFallback_noyear(_, _, _, _)
ScanFallback_noyear(candidate_title, candidate_year, candidate_surnames, existing_works) ==
    IF existing_works = <<>> THEN None
    ELSE LET w == Head(existing_works)
             rest == ScanFallback_noyear(candidate_title, candidate_year,
                                         candidate_surnames,
                                         Tail(existing_works))
         IN IF ~ScoreAtLeast(token_sort_ratio(candidate_title, w[2]),
                             FallbackThreshold)
            THEN rest
            ELSE IF candidate_surnames \cap SeqToSet(w[5]) # {}
            THEN Some(w[1])
            ELSE rest

\* Tier 3 loop: same year, score >= 80, a shared surname
RECURSIVE ScanFallback(_, _, _, _)
ScanFallback(candidate_title, candidate_year, candidate_surnames, existing_works) ==
    IF existing_works = <<>> THEN None
    ELSE LET w == Head(existing_works)
             rest == ScanFallback(candidate_title, candidate_year,
                                  candidate_surnames, Tail(existing_works))
         IN IF w[4] # candidate_year THEN rest
            ELSE IF ~ScoreAtLeast(token_sort_ratio(candidate_title, w[2]),
                                  FallbackThreshold)
            THEN rest
            ELSE IF candidate_surnames \cap SeqToSet(w[5]) # {}
            THEN Some(w[1])
            ELSE rest

\* find_match with the title tier tried before the DOI tier
find_match_title_first(candidate, existing_works, title_threshold) ==
    LET candidate_doi == normalize_doi(candidate.doi)
        candidate_title == normalize_title(candidate.title)
        candidate_surnames == _extract_surnames(candidate)
        tier1 == IF TruthyStr(candidate_doi)
                 THEN ScanDoi(candidate_doi, existing_works)
                 ELSE None
        tier2 == ScanTitle(candidate_title, existing_works, title_threshold)
        tier3 == IF TruthyInt(candidate.year) /\ candidate_surnames # {}
                 THEN ScanFallback(candidate_title, candidate.year,
                                   candidate_surnames, existing_works)
                 ELSE None
    IN IF tier2 # None THEN tier2
       ELSE IF tier1 # None THEN tier1
       ELSE tier3

\* find_match that gives up after the title tier
find_match_no_fallback(candidate, existing_works, title_threshold) ==
    LET candidate_doi == normalize_doi(candidate.doi)
        candidate_title == normalize_title(candidate.title)
        tier1 == IF TruthyStr(candidate_doi)
                 THEN ScanDoi(candidate_doi, existing_works)
                 ELSE None
        tier2 == ScanTitle(candidate_title, existing_works, title_threshold)
    IN IF tier1 # None THEN tier1 ELSE tier2

find_match(candidate, existing_works, title_threshold) ==
    LET candidate_doi == normalize_doi(candidate.doi)
        candidate_title == normalize_title(candidate.title)
        candidate_surnames == _extract_surnames(candidate)
        tier1 == IF TruthyStr(candidate_doi)
                 THEN ScanDoi(candidate_doi, existing_works)
                 ELSE None
        tier2 == ScanTitle(candidate_title, existing_works, title_threshold)
        tier3 == IF TruthyInt(candidate.year) /\ candidate_surnames # {}
                 THEN ScanFallback(candidate_title, candidate.year,
                                   candidate_surnames, existing_works)
                 ELSE None
    IN IF tier1 # None THEN tier1
       ELSE IF tier2 # None THEN tier2
       ELSE tier3

DefaultTitleThreshold == 90

(***************************************************************************)
(* dedup.py: merge_works, _merge_awards, _merge_funders.                   *)
(***************************************************************************)
\* right-biased: b when b is truthy
OrStr_right(a, b) == IF TruthyStr(b) THEN b ELSE a

\* Python's `a or b` on optional strings and optional integers
OrStr(a, b) == IF TruthyStr(a) THEN a ELSE b

OrInt(a, b) == IF TruthyInt(a) THEN a ELSE b

\* dates and datetimes are always truthy when present
OrVal(a, b) == IF a # None THEN a ELSE b

IntOrZero(x) == IF TruthyInt(x) THEN x[1] ELSE 0

\* first occurrences, each put in front of the earlier ones
RECURSIVE DedupKeepFirst_reversed(_, _)
DedupKeepFirst_reversed(xs, acc) ==
    IF xs = <<>> THEN acc
    ELSE DedupKeepFirst_reversed(Tail(xs),
                                 IF Head(xs) \in SeqToSet(acc) THEN acc
                                 ELSE <<Head(xs)>> \o acc)

\* list(dict.fromkeys(xs)): first occurrences, in order
RECURSIVE DedupKeepFirst(_, _)
DedupKeepFirst(xs, acc) ==
    IF xs = <<>> THEN acc
    ELSE DedupKeepFirst(Tail(xs),
                        IF Head(xs) \in SeqToSet(acc) THEN acc
                        ELSE Append(acc, Head(xs)))

\* dict keyed by openalex_id: a later item with a known key replaces the
\* value in place (existing loop), a new item is skipped when its key is
\* already present (new loop)
RECURSIVE PutAll(_, _)
PutAll(items, acc) ==
    IF items = <<>> THEN acc
    ELSE LET it == Head(items)
             hit == {i \in 1..Len(acc) : acc[i].openalex_id = it.openalex_id}
         IN PutAll(Tail(items),
                   IF hit = {} THEN Append(acc, it)
                   ELSE [i \in 1..Len(acc) |-> IF i \in hit THEN it ELSE acc[i]])

\* the new loop without its membership test: a known key is overwritten
RECURSIVE PutAbsent_overwrite(_, _)
PutAbsent_overwrite(items, acc) ==
    IF items = <<>> THEN acc
    ELSE LET it == Head(items)
             hit == {i \in 1..Len(acc) : acc[i].openalex_id = it.openalex_id}
         IN PutAbsent_overwrite(Tail(items),
                                IF hit = {} THEN Append(acc, it)
                                ELSE [i \in 1..Len(acc) |->
                                         IF i \in hit THEN it ELSE acc[i]])

RECURSIVE PutAbsent(_, _)
PutAbsent(items, acc) ==
    IF items = <<>> THEN acc
    ELSE LET it == Head(items)
         IN PutAbsent(Tail(items),
                      IF \E i \in 1..Len(acc) : acc[i].openalex_id = it.openalex_id
                      THEN acc
                      ELSE Append(acc, it))

_merge_awards(existing, new) == PutAbsent(new, PutAll(existing, <<>>))

\* _merge_funders whose new loop appends without the membership test
_merge_funders_append(existing, new) == PutAll(existing, <<>>) \o new

_merge_funders(existing, new) == PutAbsent(new, PutAll(existing, <<>>))

\* merge_works that always keeps existing.work_type
merge_works_keep_type(existing, new) ==
    LET merged_sources == DedupKeepFirst(existing.sources \o new.sources, <<>>)
        cites == Max(IntOrZero(existing.citation_count),
                     IntOrZero(new.citation_count))
    IN [doi |-> OrStr(existing.doi, new.doi),
        title |-> existing.title,
        authors |-> IF existing.authors # <<>> THEN existing.authors
                    ELSE new.authors,
        publication_date |-> OrVal(existing.publication_date,
                                   new.publication_date),
        year |-> OrInt(existing.year, new.year),
        venue |-> OrStr(existing.venue, new.venue),
        work_type |-> existing.work_type,
        abstract |-> OrStr(existing.abstract, new.abstract),
        openalex_id |-> OrStr(existing.openalex_id, new.openalex_id),
        semantic_scholar_id |-> OrStr(existing.semantic_scholar_id,
                                      new.semantic_scholar_id),
        open_access |-> IF existing.open_access # None
                        THEN existing.open_access ELSE new.open_access,
        open_access_url |-> OrStr(existing.open_access_url,
                                  new.open_access_url),
        citation_count |-> IF cites # 0 THEN Some(cites) ELSE None,
        tldr |-> OrStr(existing.tldr, new.tldr),
        awards |-> _merge_awards(existing.awards, new.awards),
        funders |-> _merge_funders(existing.funders, new.funders),
        \* fields the constructor call leaves at the model's defaults
        linked_resources |-> <<>>,
        verified |-> FALSE, verified_by |-> None, verified_at |-> None,
        verification_issue_url |-> None, notes |-> None,
        sources |-> merged_sources,
        first_seen |-> existing.first_seen,
        last_updated |-> OrVal(new.last_updated, existing.last_updated)]

merge_works(existing, new) ==
    LET merged_sources == DedupKeepFirst(existing.sources \o new.sources, <<>>)
        cites == Max(IntOrZero(existing.citation_count),
                     IntOrZero(new.citation_count))
    IN [doi |-> OrStr(existing.doi, new.doi),
        title |-> existing.title,
        authors |-> IF existing.authors # <<>> THEN existing.authors
                    ELSE new.authors,
        publication_date |-> OrVal(existing.publication_date,
                                   new.publication_date),
        year |-> OrInt(existing.year, new.year),
        venue |-> OrStr(existing.venue, new.venue),
        work_type |-> IF existing.work_type # WT_OTHER THEN existing.work_type
                      ELSE new.work_type,
        abstract |-> OrStr(existing.abstract, new.abstract),
        openalex_id |-> OrStr(existing.openalex_id, new.openalex_id),
        semantic_scholar_id |-> OrStr(existing.semantic_scholar_id,
                                      new.semantic_scholar_id),
        open_access |-> IF existing.open_access # None
                        THEN existing.open_access ELSE new.open_access,
        open_access_url |-> OrStr(existing.open_access_url,
                                  new.open_access_url),
        citation_count |-> IF cites # 0 THEN Some(cites) ELSE None,
        tldr |-> OrStr(existing.tldr, new.tldr),
        awards |-> _merge_awards(existing.awards, new.awards),
        funders |-> _merge_funders(existing.funders, new.funders),
        \* fields the constructor call leaves at the model's defaults
        linked_resources |-> <<>>,
        verified |-> FALSE, verified_by |-> None, verified_at |-> None,
        verification_issue_url |-> None, notes |-> None,
        sources |-> merged_sources,
        first_seen |-> existing.first_seen,
        last_updated |-> OrVal(new.last_updated, existing.last_updated)]

(***************************************************************************)
(* store.py: the works table, as a function from row id to row.  A row     *)
(* holds the columns of works and, folded in, the rows of work_authors,    *)
(* work_awards, work_funders and linked_resources of that work.            *)
(***************************************************************************)
WorkFields == DOMAIN Work(None, <<>>, <<>>, None)

\* _work_to_row plus the child rows insert_work / update_work write
_work_to_row(work, now) ==
    [k \in WorkFields \cup {"title_normalized"} |->
        IF k = "title_normalized" THEN normalize_title(work.title)
        ELSE IF k = "first_seen"
             THEN (IF work.first_seen # None THEN work.first_seen ELSE Some(now))
        ELSE IF k = "last_updated" THEN Some(now)
        ELSE work[k]]

\* _row_to_work and _hydrate_work
_hydrate_work(row) ==
    [k \in WorkFields |->
        \* work_type: _work_to_row always writes a WorkType value
        row[k]]

\* UNIQUE(doi): no other row may hold the same non-NULL doi
DoiConflict(rows, doi, self_id) ==
    doi # None /\ \E i \in DOMAIN rows : i # self_id /\ rows[i].doi = doi

MaxOf(S) == CHOOSE m \in S : \A x \in S : x <= m

MinOf(S) == CHOOSE m \in S : \A x \in S : m <= x

\* cursor.lastrowid of an INTEGER PRIMARY KEY table: max(rowid) + 1
NextRowId(rows) == IF DOMAIN rows = {} THEN 1 ELSE MaxOf(DOMAIN rows) + 1

\* insert_work: the new table (ProcessWork tests DoiConflict before it)
insert_work(rows, work, now) ==
    rows @@ (NextRowId(rows) :> _work_to_row(work, now))

\* update_work as delete-and-reinsert: the row moves to a fresh id
update_work_reinsert(rows, work_id, work, now) ==
    LET row == _work_to_row(work, now)
        rest == [i \in DOMAIN rows \ {work_id} |-> rows[i]]
    IN rest @@ (NextRowId(rows) :>
                  [k \in DOMAIN row |->
                     IF k = "first_seen" THEN rows[work_id].first_seen
                     ELSE row[k]])

\* update_work that writes first_seen like every other column
update_work_all_columns(rows, work_id, work, now) ==
    [i \in DOMAIN rows |->
        IF i = work_id THEN _work_to_row(work, now) ELSE rows[i]]

\* update_work: every column but first_seen is overwritten
update_work(rows, work_id, work, now) ==
    LET row == _work_to_row(work, now)
    IN [i \in DOMAIN rows |->
          IF i = work_id
          THEN [k \in DOMAIN row |->
                  IF k = "first_seen" THEN rows[i].first_seen ELSE row[k]]
          ELSE rows[i]]

\* mark_work_verified: UPDATE works SET verified = 1, ... WHERE id = ?
mark_work_verified(rows, work_id, verified_by, issue_url, notes, now) ==
    [i \in DOMAIN rows |->
        IF i = work_id
        THEN [rows[i] EXCEPT !.verified = TRUE,
                             !.verified_by = verified_by,
                             !.verified_at = Some(now),
                             !.verification_issue_url = issue_url,
                             !.notes = notes]
        ELSE rows[i]]

\* add_linked_resource: INSERT INTO linked_resources
add_linked_resource(rows, work_id, resource) ==
    [i \in DOMAIN rows |->
        IF i = work_id
        THEN [rows[i] EXCEPT !.linked_resources = Append(@, resource)]
        ELSE rows[i]]

\* SELECT ... WHERE doi = ? / WHERE title_normalized = ?, fetchone():
\* the index scan yields equal keys in rowid order
find_work_by_doi(rows, doi) ==
    LET hits == {i \in DOMAIN rows : rows[i].doi = doi}
    IN IF hits = {} THEN None
       ELSE <<MinOf(hits), _hydrate_work(rows[MinOf(hits)])>>

find_work_by_title(rows, title) ==
    LET normalized == normalize_title(title)
        hits == {i \in DOMAIN rows : rows[i].title_normalized = normalized}
    IN IF hits = {} THEN None
       ELSE <<MinOf(hits), _hydrate_work(rows[MinOf(hits)])>>

\* [a.name.split()[-1].lower() for a in authors if a.name]
RECURSIVE SurnameList(_)
SurnameList(authors) ==
    IF authors = <<>> THEN <<>>
    ELSE LET parts == Split(Head(authors).name)
         IN (IF Head(authors).name # <<>>
             THEN <<Lower(parts[Len(parts)])>> ELSE <<>>)
            \o SurnameList(Tail(authors))

RECURSIVE SummariesFrom(_, _)
SummariesFrom(rows, ids) ==
    IF ids = {} THEN <<>>
    ELSE LET i == MinOf(ids)
         IN <<<<i, rows[i].title_normalized, rows[i].doi, rows[i].year,
                SurnameList(rows[i].authors)>>>>
            \o SummariesFrom(rows, ids \ {i})

get_all_works_for_matching(rows) == SummariesFrom(rows, DOMAIN rows)

(***************************************************************************)
(* ingest/link_scholar_works.py: the name matchers.                        *)
(***************************************************************************)
\* "tanushree", "tanu"
TANUSHREE == <<116, 97, 110, 117, 115, 104, 114, 101, 101>>

TANU == <<116, 97, 110, 117>>

\* str.replace(old, new), left to right without overlap
RECURSIVE Replace(_, _, _)
Replace(s, old, new) ==
    IF s = <<>> THEN <<>>
    ELSE IF HasPrefix(s, old)
         THEN new \o Replace(SubSeq(s, Len(old) + 1, Len(s)), old, new)
         ELSE <<Head(s)>> \o Replace(Tail(s), old, new)

\* str.rstrip(".")
RECURSIVE RStripDots(_)
RStripDots(s) == IF s # <<>> /\ s[Len(s)] = 46
                 THEN RStripDots(SubSeq(s, 1, Len(s) - 1))
                 ELSE s

\* tok.split("-")[0]
RECURSIVE BeforeHyphen(_)
BeforeHyphen(tok) == IF tok = <<>> \/ Head(tok) = 45 THEN <<>>
                     ELSE <<Head(tok)>> \o BeforeHyphen(Tail(tok))

\* str.isalpha()
IsAlpha(tok) ==
    /\ tok # <<>>
    /\ \A i \in 1..Len(tok) :
          tok[i] \in (65..90) \cup (97..122) \cup {201, 233}

\* NICKNAME_MAP.get(first, first)
NicknameOf(first) == IF first = TANUSHREE THEN TANU ELSE first

_normalize(name) == CollapseWs(Lower(Strip(Replace(name, <<46>>, <<>>))), FALSE)

\* Pass 1 loop: the first researcher name equal after normalisation
RECURSIVE ExactPass(_, _)
ExactPass(norm_alert, researcher_names) ==
    IF researcher_names = <<>> THEN None
    ELSE IF _normalize(Head(researcher_names)) = norm_alert
         THEN Head(researcher_names)
         ELSE ExactPass(norm_alert, Tail(researcher_names))

\* Pass 2 loop: same last token, and first tokens equal or one a prefix of
\* the other
RECURSIVE FirstLastPass(_, _, _)
FirstLastPass(alert_first_resolved, alert_last, researcher_names) ==
    IF researcher_names = <<>> THEN None
    ELSE LET name == Head(researcher_names)
             res_parts == Split(_normalize(name))
             rest == FirstLastPass(alert_first_resolved, alert_last,
                                   Tail(researcher_names))
         IN IF Len(res_parts) < 2 THEN rest
            ELSE LET res_first == BeforeHyphen(res_parts[1])
                     res_last == res_parts[Len(res_parts)]
                 IN IF res_last # alert_last THEN rest
                    ELSE IF \/ res_first = alert_first_resolved
                            \/ HasPrefix(alert_first_resolved, res_first)
                            \/ HasPrefix(res_first, alert_first_resolved)
                         THEN name
                         ELSE rest

match_alert_name_to_researcher(alert_name, researcher_names) ==
    LET norm_alert == _normalize(alert_name)
        exact == ExactPass(norm_alert, researcher_names)
        alert_parts == Split(norm_alert)
    IN IF exact # None THEN exact
       ELSE IF Len(alert_parts) < 2 THEN None
       ELSE FirstLastPass(NicknameOf(BeforeHyphen(alert_parts[1])),
                          alert_parts[Len(alert_parts)], researcher_names)

\* "".join(n[0].lower() for n in res_given)
Initials(res_given) == [i \in 1..Len(res_given) |-> LowerChar(res_given[i][1])]

matches_author_initials(author_name, researcher_name) ==
    LET cleaned == Strip(RStripDots(Replace(author_name, <<8230>>, <<>>)))
        parts == Split(cleaned)
        res_parts == Split(researcher_name)
    IN IF Len(parts) < 2 THEN FALSE
       ELSE IF Len(res_parts) < 2 THEN FALSE
       ELSE IF Lower(parts[Len(parts)]) # Lower(res_parts[Len(res_parts)])
       THEN FALSE
       ELSE LET given == SubSeq(parts, 1, Len(parts) - 1)
                res_given == SubSeq(res_parts, 1, Len(res_parts) - 1)
            IN IF /\ Len(given) = 1
                  /\ IsAlpha(given[1])
                  /\ Len(given[1]) <= 4
                  /\ HasPrefix(Lower(given[1]), Initials(res_given))
               THEN TRUE
               ELSE Lower(given[1]) = Lower(res_given[1])

(***************************************************************************)
(* ingest/link_scholar_works.py: link_scholar_works.  researchers is the   *)
(* list of names in id order, authors maps a work id to its author names,  *)
(* items holds <<Some(work_id) or None, subject>> for every alert item     *)
(* joined with its email, links is researcher_works.                       *)
(***************************************************************************)
\* " - new articles"
NewArticlesSuffix == <<32, 45, 32, 110, 101, 119, 32, 97, 114, 116, 105, 99, 108, 101, 115>>

\* researchers: dict name -> id; a later row with the same name wins
ResearcherIdOf(researchers, name) ==
    MaxOf({i \in 1..Len(researchers) : researchers[i] = name})

\* the SELECT DISTINCT: <<work_id, alert name>> of the items whose work has
\* no row in researcher_works
OrphanRows(items, links) ==
    { <<it[1][1], Replace(it[2], NewArticlesSuffix, <<>>)>> :
        it \in { x \in items : /\ x[1] # None
                                /\ ~\E l \in links : l[2] = x[1][1] } }

\* authors_by_work.get(work_id, [])
AuthorsOf(authors, work_id) ==
    IF work_id \in DOMAIN authors THEN authors[work_id] ELSE <<>>

\* Linkages that appends every resolved researcher, validated or not
Linkages_unvalidated(researchers, rows, authors) ==
    { <<ResearcherIdOf(researchers, match_alert_name_to_researcher(row[2], researchers)), row[1]>> :
        row \in { r \in rows :
                    match_alert_name_to_researcher(r[2], researchers) # None } }

\* the loops over alerts_by_work: the pairs appended to linkages
Linkages(researchers, rows, authors) ==
    { <<ResearcherIdOf(researchers, match_alert_name_to_researcher(row[2], researchers)), row[1]>> :
        row \in { r \in rows :
                    LET matched == match_alert_name_to_researcher(r[2], researchers)
                        work_authors == AuthorsOf(authors, r[1])
                    IN /\ matched # None
                       /\ ~(/\ work_authors # <<>>
                            /\ ~\E i \in 1..Len(work_authors) :
                                  matches_author_initials(work_authors[i], matched)) } }

\* one INSERT OR IGNORE instead of executemany: the pair of the lowest work
InsertOrIgnore_first(links, linkages) ==
    IF linkages = {} THEN links
    ELSE links \cup {CHOOSE l \in linkages :
                        \A k \in linkages :
                            l[2] < k[2] \/ (l[2] = k[2] /\ l[1] <= k[1])}

\* executemany of INSERT OR IGNORE INTO researcher_works
InsertOrIgnore(links, linkages) == links \cup linkages

\* <<researcher_works after the call, return value>>
link_scholar_works(researchers, authors, items, links) ==
    LET rows == OrphanRows(items, links)
        linkages == Linkages(researchers, rows, authors)
        after == InsertOrIgnore(links, linkages)
    IN IF rows = {} THEN <<links, 0>>
       ELSE IF linkages = {} THEN <<links, 0>>
       ELSE <<after, Cardinality(after \ links)>>

(***************************************************************************)
(* Bounds of the model.                                                    *)
(***************************************************************************)
MaxWorks == 3

MaxBatch == 3

MaxClock == 5

MaxSummaries == 2
\* merge_works on its own: longest author list, source list, award list and
\* funder list of an argument, and the largest citation count
MaxAuthors == 2

MaxSources == 2

MaxItems == 2

MaxCites == 3
\* the normalisers on their own: longest title, and longest DOI body
MaxTitleLen == 3

MaxDoiLen == 2
\* split_author_name on its own: longest name
MaxNameLen == 5
\* linked resources added to one record
MaxResources == 1
\* link_scholar_works: works in the database, and runs in a row
MaxLinkWorks == 2

MaxRuns == 2

(***************************************************************************)
(* Input texts.                                                            *)
(***************************************************************************)
\* "abcd fghij"
T_PLAIN == <<97, 98, 99, 100, 32, 102, 103, 104, 105, 106>>

\* "Fghij: Abcd"  (normalises to "fghij abcd", token-sorts to T_PLAIN)
T_RAW == <<70, 103, 104, 105, 106, 58, 32, 65, 98, 99, 100>>

\* "abcd fghix"   (score 90 against T_PLAIN)
T_NEAR == <<97, 98, 99, 100, 32, 102, 103, 104, 105, 120>>

\* "abcd fgh"     (score 88.9 against T_PLAIN)
T_BELOW == <<97, 98, 99, 100, 32, 102, 103, 104>>

\* "abcd fghxy"   (score 80 against T_PLAIN)
T_LOOSE == <<97, 98, 99, 100, 32, 102, 103, 104, 120, 121>>

\* "abcd fgxyz"   (score 70 against T_PLAIN)
T_FAR == <<97, 98, 99, 100, 32, 102, 103, 120, 121, 122>>

\* "A-b-c-d f-g-h-i-j"  (normalises to T_PLAIN)
T_PUNCT == <<65, 45, 98, 45, 99, 45, 100, 32, 102, 45, 103, 45, 104, 45, 105, 45, 106>>

\* "zz"
T_OTHER == <<122, 122>>

\* "10.1/x" and "10.1/X", "10.2/y"
D_LOW == <<49, 48, 46, 49, 47, 120>>

D_UP == <<49, 48, 46, 49, 47, 88>>

D_TWO == <<49, 48, 46, 50, 47, 121>>

\* "J Doe", and the surnames "doe", "roe"
N_JDOE == <<74, 32, 68, 111, 101>>

S_DOE == <<100, 111, 101>>

S_ROE == <<114, 111, 101>>

Y2025 == Some(2025)

Y2024 == Some(2024)

(***************************************************************************)
(* State.                                                                  *)
(***************************************************************************)
VARIABLES
    works,             \* store: row id -> row of the works table
    researcher_works,  \* store: set of <<researcher_id, work_id>>
    clock,             \* datetime.utcnow()
    pc,                \* "idle", or "loop" inside _dedup_and_store
    existing_works,    \* _dedup_and_store: the in-memory summary list
    new_works,         \* _dedup_and_store: result list
    updated_works,     \* _dedup_and_store: result list
    steps,             \* _dedup_and_store: candidates consumed in this pass
    researcher_id,     \* _dedup_and_store: argument
    last,              \* locals of the last loop iteration
    fm_cand,           \* find_match called on its own: candidate
    fm_list,           \* find_match called on its own: summaries
    fm_res,            \* find_match called on its own: result
    fm_pc,             \* find_match called on its own: "input" or "returned"
    mg_existing,       \* merge_works called on its own: first argument
    mg_new,            \* merge_works called on its own: second argument
    mg_res,            \* merge_works called on its own: result
    mg_again,          \* result of merging mg_new into mg_res once more
    mg_pc,             \* merge_works called on its own: "input" or "returned"
    nz_in,             \* a normaliser called on its own: argument
    nz_out,            \* a normaliser called on its own: result
    nz_again,          \* normalize_title applied to its own result
    nz_pc,             \* a normaliser called on its own: "input", "once", "twice"
    lk_authors,        \* link_scholar_works: work_authors, work id -> author names
    lk_items,          \* link_scholar_works: alert items joined with their email subject
    lk_links,          \* link_scholar_works: rows of researcher_works
    lk_rets,           \* link_scholar_works: return values of the runs so far
    lk_before,         \* link_scholar_works: researcher_works before the last run
    al_mailbox,        \* ingest_scholar_alerts: the emails the IMAP search returns
    al_emails,         \* store: message ids of scholar_alert_emails
    al_items,          \* store: rows of scholar_alert_items
    al_runs,           \* ingest_scholar_alerts: the calls that ended so far
    al_pc,             \* ingest_scholar_alerts: idle, or loop over the emails
    al_todo,           \* ingest_scholar_alerts: the emails not yet iterated
    al_cur,            \* ingest_scholar_alerts: arguments and locals of the running call
    sy_pc,             \* sync: idle, next, gather, dedup, raised or done
    sy_ri,             \* sync: index of the researcher of this iteration
    sy_tasks,          \* _fetch_all_sources: the fetch tasks handed to asyncio.gather
    sy_fetched,        \* sync: the works _fetch_all_sources returned
    sy_ids,            \* store: source ids of the researchers table
    sy_log,            \* sync: what each _fetch_all_sources call gathered and returned
    sy_errors          \* sync: the error messages so far

vars == <<works, researcher_works, clock, pc, existing_works, new_works,
          updated_works, steps, researcher_id, last, fm_cand, fm_list, fm_res,
          fm_pc, mg_existing, mg_new, mg_res, mg_again, mg_pc, nz_in, nz_out, nz_again,
          nz_pc,
          lk_authors, lk_items, lk_links, lk_rets, lk_before,
          al_mailbox, al_emails, al_items, al_runs, al_pc, al_todo, al_cur,
          sy_pc, sy_ri, sy_tasks, sy_fetched, sy_ids, sy_log, sy_errors>>

passVars == <<works, researcher_works, clock, pc, existing_works, new_works,
              updated_works, steps, researcher_id, last>>

fmVars == <<fm_cand, fm_list, fm_res, fm_pc>>

mgVars == <<mg_existing, mg_new, mg_res, mg_again, mg_pc>>

nzVars == <<nz_in, nz_out, nz_again, nz_pc>>

lkVars == <<lk_authors, lk_items, lk_links, lk_rets, lk_before>>

alVars == <<al_mailbox, al_emails, al_items, al_runs, al_pc, al_todo, al_cur>>

syVars == <<sy_pc, sy_ri, sy_tasks, sy_fetched, sy_ids, sy_log, sy_errors>>

NoIteration == [outcome |-> "none", work |-> None, match_id |-> None,
                existing_id |-> None, existing |-> None, merged |-> None,
                before |-> None]

(***************************************************************************)
(* Candidates handed to _dedup_and_store.  Every author name has at least  *)
(* one token.                                                              *)
(***************************************************************************)
WithFirstSeen(w, t) == [w EXCEPT !.first_seen = t]

Candidates ==
    { Work(None, T_RAW, <<Author(N_JDOE)>>, Y2025),
      WithFirstSeen(Work(None, T_NEAR, <<>>, None), Some(0)),
      WithFirstSeen(Work(None, T_PUNCT, <<Author(N_JDOE)>>, Y2025),
                    Some(9)),
      Work(D_UP, T_PLAIN, <<>>, None),
      Work(D_LOW, T_OTHER, <<>>, None) }

ResearcherIds == {None, Some(1)}

(***************************************************************************)
(* core.py: LabPubs._dedup_and_store.                                      *)
(***************************************************************************)
PassInit ==
    /\ works = << >>
    /\ researcher_works = {}
    /\ clock = 1
    /\ pc = "idle"
    /\ existing_works = <<>>
    /\ new_works = <<>>
    /\ updated_works = <<>>
    /\ steps = 0
    /\ researcher_id = None
    /\ last = NoIteration

FmIdle ==
    /\ fm_cand = None
    /\ fm_list = <<>>
    /\ fm_res = None
    /\ fm_pc = "idle"

MgIdle ==
    /\ mg_existing = None
    /\ mg_new = None
    /\ mg_res = None
    /\ mg_again = None
    /\ mg_pc = "idle"

NzIdle ==
    /\ nz_in = None
    /\ nz_out = None
    /\ nz_again = None
    /\ nz_pc = "idle"

LkIdle ==
    /\ lk_authors = <<>>
    /\ lk_items = {}
    /\ lk_links = {}
    /\ lk_rets = <<>>
    /\ lk_before = {}

AlIdle ==
    /\ al_mailbox = <<>>
    /\ al_emails = {}
    /\ al_items = {}
    /\ al_runs = <<>>
    /\ al_pc = "idle"
    /\ al_todo = <<>>
    /\ al_cur = None

SyIdle ==
    /\ sy_pc = "idle"
    /\ sy_ri = 0
    /\ sy_tasks = <<>>
    /\ sy_fetched = <<>>
    /\ sy_ids = <<>>
    /\ sy_log = <<>>
    /\ sy_errors = <<>>

Init == PassInit /\ FmIdle /\ MgIdle /\ NzIdle /\ LkIdle /\ AlIdle /\ SyIdle

\* entry of _dedup_and_store: the summary list is loaded from the store
BeginPass(rid) ==
    /\ pc = "idle"
    /\ pc' = "loop"
    /\ researcher_id' = rid
    /\ existing_works' = get_all_works_for_matching(works)
    /\ new_works' = <<>>
    /\ updated_works' = <<>>
    /\ steps' = 0
    /\ last' = NoIteration
    /\ UNCHANGED <<works, researcher_works, clock>>
    /\ UNCHANGED <<fmVars, mgVars, nzVars, lkVars, alVars, syVars>>

\* link_researcher_work: INSERT OR IGNORE
link_researcher_work(links, rid, work_id) ==
    IF rid # None THEN links \cup {<<rid[1], work_id>>} ELSE links

\* the summary appended after an insert
AppendedSummary(work_id, work) ==
    <<work_id, Lower(work.title), work.doi, work.year,
      SurnameList(work.authors)>>

\* the lookup of the full existing record after a match
LookupExisting(rows, work) ==
    LET by_doi == IF TruthyStr(work.doi) THEN find_work_by_doi(rows, work.doi)
                  ELSE None
    IN IF by_doi # None THEN by_doi ELSE find_work_by_title(rows, work.title)

\* one iteration of the loop over the candidates
ProcessWork(work) ==
    /\ pc = "loop"
    /\ steps < MaxBatch
    /\ steps' = steps + 1
    \* datetime.utcnow() of this iteration; the next one reads a later time
    /\ clock < MaxClock
    /\ clock' = clock + 1
    /\ LET match_id == find_match(work, existing_works, DefaultTitleThreshold)
       IN IF match_id = None
          THEN LET stamped == [work EXCEPT !.first_seen = Some(clock)]
                   work_id == NextRowId(works)
               IN IF DoiConflict(works, stamped.doi, 0)
                  THEN \* sqlite3.IntegrityError leaves _dedup_and_store
                       /\ pc' = "idle"
                       /\ last' = [NoIteration EXCEPT
                                     !.outcome = "insert_failed",
                                     !.work = work]
                       /\ UNCHANGED <<works, researcher_works, existing_works,
                                      new_works, updated_works>>
                  ELSE /\ Cardinality(DOMAIN works) < MaxWorks
                       /\ works' = insert_work(works, stamped, clock)
                       /\ researcher_works' =
                            link_researcher_work(researcher_works,
                                                 researcher_id, work_id)
                       /\ new_works' = Append(new_works, stamped)
                       /\ existing_works' =
                            Append(existing_works,
                                   AppendedSummary(work_id, stamped))
                       /\ last' = [NoIteration EXCEPT
                                     !.outcome = "inserted",
                                     !.work = work,
                                     !.merged = Some(work_id)]
                       /\ UNCHANGED <<pc, updated_works>>
          ELSE LET existing_result == LookupExisting(works, work)
               IN IF existing_result # None
                  THEN LET existing_work == existing_result[2]
                           merged == merge_works(existing_work, work)
                           it == [outcome |-> "merged", work |-> work,
                                  match_id |-> match_id,
                                  existing_id |-> Some(existing_result[1]),
                                  existing |-> existing_work,
                                  merged |-> merged,
                                  before |-> _hydrate_work(works[match_id[1]])]
                       IN IF DoiConflict(works, merged.doi, match_id[1])
                          THEN /\ pc' = "idle"
                               /\ last' = [it EXCEPT !.outcome = "update_failed"]
                               /\ UNCHANGED <<works, researcher_works,
                                              existing_works, new_works,
                                              updated_works>>
                          ELSE /\ works' = update_work(works, match_id[1],
                                                       merged, clock)
                               /\ researcher_works' =
                                    link_researcher_work(researcher_works,
                                                         researcher_id,
                                                         match_id[1])
                               /\ updated_works' = Append(updated_works, merged)
                               /\ last' = it
                               /\ UNCHANGED <<pc, existing_works, new_works>>
                  ELSE \* a match without a record to merge into: skipped
                       /\ last' = [NoIteration EXCEPT
                                     !.outcome = "dropped",
                                     !.work = work,
                                     !.match_id = match_id]
                       /\ UNCHANGED <<works, researcher_works, pc,
                                      existing_works, new_works, updated_works>>
    /\ UNCHANGED researcher_id
    /\ UNCHANGED <<fmVars, mgVars, nzVars, lkVars, alVars, syVars>>

\* return new_works, updated_works
EndPass ==
    /\ pc = "loop"
    /\ pc' = "idle"
    /\ UNCHANGED <<works, researcher_works, clock, existing_works, new_works,
                   updated_works, steps, researcher_id, last>>
    /\ UNCHANGED <<fmVars, mgVars, nzVars, lkVars, alVars, syVars>>

Next ==
    \/ \E rid \in ResearcherIds : BeginPass(rid)
    \/ \E work \in Candidates : ProcessWork(work)
    \/ EndPass

Spec == Init /\ [][Next]_vars

(***************************************************************************)
(* find_match called on its own, on any candidate and any summary list.    *)
(***************************************************************************)
\* "fghij abcd"  (score 100 against T_RAW's normal form)
T_SWAP == <<102, 103, 104, 105, 106, 32, 97, 98, 99, 100>>

FmCandidates ==
    { Work(doi, T_RAW, au[1], au[2]) :
        doi \in {None, D_UP, D_TWO},
        au \in { <<<<>>, None>>, <<<<Author(N_JDOE)>>, None>>,
                 <<<<>>, Y2025>>, <<<<Author(N_JDOE)>>, Y2025>> } }

\* summaries without their id: <<title_normalized, doi, year, surnames>>
FmEntries ==
    { <<t, r[1], r[2], r[3]>> :
        t \in {T_SWAP, T_NEAR, T_BELOW, T_LOOSE, T_FAR},
        r \in { <<None, Y2025, <<S_DOE>>>>,
                <<D_LOW, Y2025, <<S_DOE>>>>,
                <<None, Y2024, <<S_DOE>>>>,
                <<None, Y2025, <<S_ROE>>>> } }

\* row ids are given against list order, so that order and id differ
FmWithIds(entries) ==
    [i \in 1..Len(entries) |->
        <<Len(entries) + 1 - i, entries[i][1], entries[i][2], entries[i][3],
          entries[i][4]>>]

FmLists == UNION { [1..n -> FmEntries] : n \in 0..MaxSummaries }

FmInit ==
    /\ PassInit
    /\ SyIdle
    /\ AlIdle
    /\ LkIdle
    /\ fm_pc = "input"
    /\ fm_cand \in FmCandidates
    /\ \E entries \in FmLists : fm_list = FmWithIds(entries)
    /\ fm_res = None
    /\ MgIdle
    /\ NzIdle

FmCall ==
    /\ fm_pc = "input"
    /\ fm_res' = find_match(fm_cand, fm_list, DefaultTitleThreshold)
    /\ fm_pc' = "returned"
    /\ UNCHANGED <<fm_cand, fm_list>>
    /\ UNCHANGED <<passVars, mgVars, nzVars, lkVars, alVars, syVars>>

FmNext == FmCall

SpecFM == FmInit /\ [][FmNext]_vars

(***************************************************************************)
(* merge_works called on its own.  The two arguments differ in one field   *)
(* at a time, or are two fully populated records.                          *)
(***************************************************************************)
SeqsUpTo(S, n) == UNION { [1..k -> S] : k \in 0..n }

\* "abcd", "wxyz", "abcdef"
MT_FULL == <<97, 98, 99, 100>>

MT_SAME == <<119, 120, 121, 122>>

MT_LONG == <<97, 98, 99, 100, 101, 102>>

\* "abcdefgh...", "a...", and "abcdefg" followed by U+2026
MT_DOTS == <<97, 98, 99, 100, 101, 102, 103, 104, 46, 46, 46>>

MT_DOTS_SHORT == <<97, 46, 46, 46>>

MT_ELLIPSIS == <<97, 98, 99, 100, 101, 102, 103, 8230>>

\* "J Roe", "Jane Doe"
N_JROE == <<74, 32, 82, 111, 101>>

N_JANE == <<74, 97, 110, 101, 32, 68, 111, 101>>

Source == {"openalex", "semantic_scholar", "crossref"}

WorkType == {"journal-article", "conference-paper", "preprint",
             "book-chapter", "dissertation", WT_OTHER}

Award(id, display_name) == [openalex_id |-> id, display_name |-> display_name]

Funder(id, name) == [openalex_id |-> id, name |-> name]

MgTitles == {MT_FULL, MT_SAME, MT_LONG, MT_DOTS, MT_DOTS_SHORT, MT_ELLIPSIS}

MgOptStrings == {None, <<>>, D_LOW, D_TWO}

MgOptInts == {None, Some(1), Some(2)}

MgAuthorLists ==
    SeqsUpTo({Author(N_JDOE), Author(N_JROE), Author(N_JANE)}, MaxAuthors)

MgAwardLists ==
    SeqsUpTo({Award(id, n) : id \in {"A1", "A2"}, n \in {"x", "y"}}, MaxItems)

MgFunderLists ==
    SeqsUpTo({Funder(id, n) : id \in {"F1", "F2"}, n \in {"x", "y"}}, MaxItems)

LeftBiasedStrings == {"doi", "abstract", "tldr", "openalex_id",
                      "semantic_scholar_id", "open_access_url"}

MgFields == WorkFields \ {"linked_resources", "verified", "verified_by",
                          "verified_at", "verification_issue_url", "notes"}

MgValues(f) ==
    CASE f = "title" -> MgTitles
      [] f = "venue" -> {None, <<>>} \cup MgTitles
      [] f \in LeftBiasedStrings -> MgOptStrings
      [] f = "year" -> {None, Y2024, Y2025}
      [] f \in {"publication_date", "first_seen", "last_updated"} -> MgOptInts
      [] f = "open_access" -> {None, Some(0), Some(1)}
      [] f = "citation_count" -> {None} \cup {Some(n) : n \in 0..MaxCites}
      [] f = "work_type" -> WorkType
      [] f = "authors" -> MgAuthorLists
      [] f = "awards" -> MgAwardLists
      [] f = "funders" -> MgFunderLists
      [] f = "sources" -> SeqsUpTo(Source, MaxSources)

MgBase == Work(None, MT_FULL, <<>>, None)

MgVary(f) == { [MgBase EXCEPT ![f] = v] : v \in MgValues(f) }

\* two records with every field set, to different values
MgWhole ==
    { [doi |-> D_LOW, title |-> MT_DOTS, authors |-> <<Author(N_JDOE)>>,
       publication_date |-> Some(1), year |-> Y2024, venue |-> MT_DOTS_SHORT,
       work_type |-> "preprint", abstract |-> D_LOW, openalex_id |-> D_LOW,
       semantic_scholar_id |-> D_LOW, open_access |-> Some(0),
       open_access_url |-> D_LOW, citation_count |-> Some(1), tldr |-> D_LOW,
       awards |-> <<Award("A1", "x")>>, funders |-> <<Funder("F1", "x")>>,
       linked_resources |-> <<>>, verified |-> FALSE, verified_by |-> None,
       verified_at |-> None, verification_issue_url |-> None, notes |-> None,
       sources |-> <<"crossref">>, first_seen |-> Some(1),
       last_updated |-> Some(1)],
      [doi |-> D_TWO, title |-> MT_LONG,
       authors |-> <<Author(N_JANE), Author(N_JROE)>>,
       publication_date |-> Some(2), year |-> Y2025, venue |-> MT_LONG,
       work_type |-> "journal-article", abstract |-> D_TWO,
       openalex_id |-> D_TWO, semantic_scholar_id |-> D_TWO,
       open_access |-> Some(1), open_access_url |-> D_TWO,
       citation_count |-> Some(2), tldr |-> D_TWO,
       awards |-> <<Award("A1", "y"), Award("A2", "y")>>,
       funders |-> <<Funder("F1", "y"), Funder("F2", "y")>>,
       linked_resources |-> <<>>, verified |-> FALSE, verified_by |-> None,
       verified_at |-> None, verification_issue_url |-> None, notes |-> None,
       sources |-> <<"openalex", "crossref">>, first_seen |-> Some(2),
       last_updated |-> Some(2)] }

MgInit ==
    /\ PassInit
    /\ SyIdle
    /\ AlIdle
    /\ LkIdle
    /\ FmIdle
    /\ NzIdle
    /\ mg_pc = "input"
    /\ mg_res = None
    /\ mg_again = None
    /\ \/ \E f \in MgFields : mg_existing \in MgVary(f) /\ mg_new \in MgVary(f)
       \/ mg_existing \in MgWhole /\ mg_new \in MgWhole

MgCall ==
    /\ mg_pc = "input"
    /\ mg_res' = merge_works(mg_existing, mg_new)
    /\ mg_pc' = "returned"
    /\ UNCHANGED <<mg_existing, mg_new, mg_again>>
    /\ UNCHANGED <<passVars, fmVars, nzVars, lkVars, alVars, syVars>>

\* the merged record is merged with the same, unchanged candidate again
MgCallAgain ==
    /\ mg_pc = "returned"
    /\ mg_again' = merge_works(mg_res, mg_new)
    /\ mg_pc' = "twice"
    /\ UNCHANGED <<mg_existing, mg_new, mg_res>>
    /\ UNCHANGED <<passVars, fmVars, nzVars, lkVars, alVars, syVars>>

MgNext == MgCall \/ MgCallAgain

SpecMerge == MgInit /\ [][MgNext]_vars

(***************************************************************************)
(* normalize_title called on any short string, and again on its result.    *)
(***************************************************************************)
\* "A", "b", space, "-", e with acute accent, combining acute accent, and
\* the trade mark sign
NzTitleChars == {65, 98, 32, 45, 233, 769, 8482}

NzTitles == SeqsUpTo(NzTitleChars, MaxTitleLen)

NtInit ==
    /\ PassInit
    /\ SyIdle
    /\ AlIdle
    /\ LkIdle
    /\ FmIdle
    /\ MgIdle
    /\ nz_pc = "input"
    /\ nz_in \in NzTitles
    /\ nz_out = None
    /\ nz_again = None

NormalizeTitle ==
    /\ nz_pc = "input"
    /\ nz_out' = normalize_title(nz_in)
    /\ nz_pc' = "once"
    /\ UNCHANGED <<nz_in, nz_again>>
    /\ UNCHANGED <<passVars, fmVars, mgVars, lkVars, alVars, syVars>>

NormalizeTitleAgain ==
    /\ nz_pc = "once"
    /\ nz_again' = normalize_title(nz_out)
    /\ nz_pc' = "twice"
    /\ UNCHANGED <<nz_in, nz_out>>
    /\ UNCHANGED <<passVars, fmVars, mgVars, lkVars, alVars, syVars>>

NtNext == NormalizeTitle \/ NormalizeTitleAgain

SpecNormTitle == NtInit /\ [][NtNext]_vars

(***************************************************************************)
(* normalize_doi called on None and on strings made of optional outer      *)
(* whitespace, an optional URL prefix and a short body.                    *)
(***************************************************************************)
\* "HTTPS://DOI.ORG/"
UpperDoiPrefix == <<72, 84, 84, 80, 83, 58, 47, 47, 68, 79, 73, 46, 79, 82, 71, 47>>

\* "http://doixorg/": the dot of the pattern is escaped
LookalikePrefix == <<104, 116, 116, 112, 58, 47, 47, 100, 111, 105, 120, 111, 114, 103, 47>>

NzDoiPrefixes == {<<>>, HttpDoiPrefix, HttpsDoiPrefix, UpperDoiPrefix,
                  LookalikePrefix, HttpsDoiPrefix \o HttpDoiPrefix}

\* bodies over "1", "X", "/" and space
NzDoiBodies == SeqsUpTo({49, 88, 47, 32}, MaxDoiLen)

NzDois ==
    {None} \cup
    { lead \o p \o b \o trail :
        lead \in {<<>>, <<32>>}, p \in NzDoiPrefixes, b \in NzDoiBodies,
        trail \in {<<>>, <<32>>} }

NdInit ==
    /\ PassInit
    /\ SyIdle
    /\ AlIdle
    /\ LkIdle
    /\ FmIdle
    /\ MgIdle
    /\ nz_pc = "input"
    /\ nz_in \in NzDois
    /\ nz_out = None
    /\ nz_again = None

NormalizeDoi ==
    /\ nz_pc = "input"
    /\ nz_out' = normalize_doi(nz_in)
    /\ nz_pc' = "once"
    /\ UNCHANGED <<nz_in, nz_again>>
    /\ UNCHANGED <<passVars, fmVars, mgVars, lkVars, alVars, syVars>>

NdNext == NormalizeDoi

SpecNormDoi == NdInit /\ [][NdNext]_vars

(***************************************************************************)
(* split_author_name called on any short name.                             *)
(***************************************************************************)
\* "J", "d", space and tab
NzNameChars == {74, 100, 32, 9}

NzNames == SeqsUpTo(NzNameChars, MaxNameLen)

NsInit ==
    /\ PassInit
    /\ SyIdle
    /\ AlIdle
    /\ LkIdle
    /\ FmIdle
    /\ MgIdle
    /\ nz_pc = "input"
    /\ nz_in \in NzNames
    /\ nz_out = None
    /\ nz_again = None

SplitAuthorName ==
    /\ nz_pc = "input"
    /\ nz_out' = split_author_name(nz_in)
    /\ nz_pc' = "once"
    /\ UNCHANGED <<nz_in, nz_again>>
    /\ UNCHANGED <<passVars, fmVars, mgVars, lkVars, alVars, syVars>>

NsNext == SplitAuthorName

SpecSplitName == NsInit /\ [][NsNext]_vars

(***************************************************************************)
(* link_scholar_works run again and again on one database.  Every work has *)
(* an author list, a set of alert subjects it appeared under, and possibly *)
(* a researcher it is already linked to.                                   *)
(***************************************************************************)
\* "Chirag Shah", "Emma Spiro"
R_SHAH == <<67, 104, 105, 114, 97, 103, 32, 83, 104, 97, 104>>

R_SPIRO == <<69, 109, 109, 97, 32, 83, 112, 105, 114, 111>>

LkResearchers == <<R_SHAH, R_SPIRO>>

\* "C Shah", "E Spiro"
N_CSHAH == <<67, 32, 83, 104, 97, 104>>

N_ESPIRO == <<69, 32, 83, 112, 105, 114, 111>>

\* "Chirag Shah - new articles", "Emma S. Spiro - new articles",
\* "Jo Doe - new articles"
SUBJ_SHAH == R_SHAH \o NewArticlesSuffix

SUBJ_SPIRO == <<69, 109, 109, 97, 32, 83, 46, 32, 83, 112, 105, 114, 111>> \o NewArticlesSuffix

SUBJ_DOE == <<74, 111, 32, 68, 111, 101>> \o NewArticlesSuffix

LkAuthorLists == {<<>>, <<N_CSHAH>>, <<N_JDOE>>, <<N_JDOE, N_ESPIRO>>}

LkSubjectSets == {{}, {SUBJ_SHAH}, {SUBJ_SHAH, SUBJ_SPIRO}, {SUBJ_DOE}}

LkLinkedSets == {{}, {2}}

LkProfiles == [authors : LkAuthorLists, subjects : LkSubjectSets,
               linked : LkLinkedSets]

\* an alert item that matched no work
LkUnmatchedItem == <<None, SUBJ_SHAH>>

LkInit ==
    /\ PassInit
    /\ SyIdle
    /\ AlIdle
    /\ FmIdle
    /\ MgIdle
    /\ NzIdle
    /\ \E profile \in [1..MaxLinkWorks -> LkProfiles] :
          /\ lk_authors = [w \in 1..MaxLinkWorks |-> profile[w].authors]
          /\ lk_items = {LkUnmatchedItem} \cup
                UNION { { <<Some(w), subj>> : subj \in profile[w].subjects } :
                          w \in 1..MaxLinkWorks }
          /\ lk_links = UNION { { <<r, w>> : r \in profile[w].linked } :
                                  w \in 1..MaxLinkWorks }
    /\ lk_rets = <<>>
    /\ lk_before = lk_links

LinkRun ==
    /\ Len(lk_rets) < MaxRuns
    /\ LET res == link_scholar_works(LkResearchers, lk_authors, lk_items,
                                     lk_links)
       IN /\ lk_links' = res[1]
          /\ lk_rets' = Append(lk_rets, res[2])
    /\ lk_before' = lk_links
    /\ UNCHANGED <<lk_authors, lk_items>>
    /\ UNCHANGED <<passVars, fmVars, mgVars, nzVars, alVars, syVars>>

LkNext == LinkRun

SpecLink == LkInit /\ [][LkNext]_vars

(***************************************************************************)
(* Passes of _dedup_and_store over a store whose records get verified and  *)
(* get linked resources between the passes.                                *)
(***************************************************************************)
LinkedResource(url, resource_type) == [url |-> url, resource_type |-> resource_type]

VfCandidates ==
    { Work(None, T_RAW, <<Author(N_JDOE)>>, Y2025),
      Work(D_LOW, T_OTHER, <<>>, None) }

\* Store.mark_work_verified between two passes
MarkVerified(work_id) ==
    /\ pc = "idle"
    /\ work_id \in DOMAIN works
    /\ ~works[work_id].verified
    /\ works' = mark_work_verified(works, work_id, N_JDOE, D_TWO, T_OTHER,
                                   clock)
    /\ UNCHANGED <<researcher_works, clock, pc, existing_works, new_works,
                   updated_works, steps, researcher_id, last>>
    /\ UNCHANGED <<fmVars, mgVars, nzVars, lkVars, alVars, syVars>>

\* Store.add_linked_resource between two passes
AddLinkedResource(work_id) ==
    /\ pc = "idle"
    /\ work_id \in DOMAIN works
    /\ Len(works[work_id].linked_resources) < MaxResources
    /\ works' = add_linked_resource(works, work_id,
                                    LinkedResource(D_TWO, "code"))
    /\ UNCHANGED <<researcher_works, clock, pc, existing_works, new_works,
                   updated_works, steps, researcher_id, last>>
    /\ UNCHANGED <<fmVars, mgVars, nzVars, lkVars, alVars, syVars>>

VfNext ==
    \/ BeginPass(None)
    \/ \E work \in VfCandidates : ProcessWork(work)
    \/ EndPass
    \/ \E work_id \in 1..MaxWorks : MarkVerified(work_id)
    \/ \E work_id \in 1..MaxWorks : AddLinkedResource(work_id)

SpecVerify == Init /\ [][VfNext]_vars

(***************************************************************************)
(* Passes of _dedup_and_store over candidates that share a title or a DOI: *)
(* a record without DOI, the same title with a DOI, and another title with *)
(* that DOI.                                                               *)
(***************************************************************************)
DmCandidates ==
    { Work(None, T_PLAIN, <<>>, None),
      Work(D_LOW, T_PLAIN, <<>>, None),
      Work(D_LOW, T_OTHER, <<>>, None) }

DmNext ==
    \/ \E rid \in ResearcherIds : BeginPass(rid)
    \/ \E work \in DmCandidates : ProcessWork(work)
    \/ EndPass

SpecDoiMerge == Init /\ [][DmNext]_vars

(***************************************************************************)
(* ingest/scholar_alerts.py and core.py: ingest_scholar_alerts.  The HTML  *)
(* body of an email is the sequence of its entries, each with the text of  *)
(* its title link and the authors, venue and year of the line below it.    *)
(* The configuration has scholar_alerts enabled.                           *)
(***************************************************************************)
\* the member of the enum Source that alert_item_to_work names
GOOGLE_SCHOLAR_ALERT == "google_scholar_alert"

\* str.replace("\xa0", " "), re.sub(r"\s+", " ", text).strip()
_normalize_text(text) ==
    Strip(CollapseWs([i \in 1..Len(text) |->
                         IF text[i] = 160 THEN 32 ELSE text[i]], FALSE))

AlertItem(title, authors_raw, venue, year, position) ==
    [title |-> title, authors_raw |-> authors_raw, venue |-> venue,
     year |-> year, target_url |-> None, scholar_url |-> None,
     position |-> position]

\* the loop of parse_alert_html: enumerate(title_links), empty titles skipped
RECURSIVE ParseFrom(_, _)
ParseFrom(entries, position) ==
    IF entries = <<>> THEN <<>>
    ELSE LET e == Head(entries)
             title == _normalize_text(e.title)
         IN (IF title = <<>> THEN <<>>
             ELSE <<AlertItem(title, e.authors_raw, e.venue, e.year,
                              position)>>)
            \o ParseFrom(Tail(entries), position + 1)

parse_alert_html(html) == ParseFrom(html, 0)

\* str.split(","): the pieces between the commas, empty ones included
RECURSIVE SplitComma(_, _)
SplitComma(s, cur) ==
    IF s = <<>> THEN <<cur>>
    ELSE IF Head(s) = 44 THEN <<cur>> \o SplitComma(Tail(s), <<>>)
    ELSE SplitComma(Tail(s), Append(cur, Head(s)))

\* the authors loop of alert_item_to_work
RECURSIVE AlertAuthors(_)
AlertAuthors(raw_names) ==
    IF raw_names = <<>> THEN <<>>
    ELSE LET name == Strip(Head(raw_names))
             gf == split_author_name(name)
             full == IF TruthyStr(gf[1]) /\ TruthyStr(gf[2])
                     THEN gf[1] \o <<32>> \o gf[2]
                     ELSE IF TruthyStr(gf[2]) THEN gf[2] ELSE name
         IN (IF name # <<>> /\ name # <<46, 46, 46>>
             THEN <<Author(full)>> ELSE <<>>)
            \o AlertAuthors(Tail(raw_names))

alert_item_to_work(item) ==
    [Work(None, item.title,
          IF item.authors_raw # <<>>
          THEN AlertAuthors(SplitComma(item.authors_raw, <<>>)) ELSE <<>>,
          item.year)
       EXCEPT !.venue = item.venue,
              !.open_access_url = item.target_url,
              !.sources = <<GOOGLE_SCHOLAR_ALERT>>]

\* Python's "sub in s"
IsSubstring(sub, s) ==
    \E i \in 0..(Len(s) - Len(sub)) : SubSeq(s, i + 1, i + Len(sub)) = sub

\* tier 1: subject prefix; tier 2: a user= id found in the body
match_email_to_researcher(email_subject, user_ids, researcher_map) ==
    LET by_prefix == {i \in DOMAIN researcher_map :
                        /\ TruthyStr(researcher_map[i].alert_subject_prefix)
                        /\ IsSubstring(researcher_map[i].alert_subject_prefix,
                                       email_subject)}
        by_user == {i \in DOMAIN researcher_map :
                      /\ TruthyStr(researcher_map[i].scholar_profile_user)
                      /\ researcher_map[i].scholar_profile_user \in user_ids}
    IN IF by_prefix # {} THEN researcher_map[MinOf(by_prefix)].researcher_name
       ELSE IF by_user # {} THEN researcher_map[MinOf(by_user)].researcher_name
       ELSE None

\* SELECT id FROM researchers WHERE LOWER(name) LIKE '%name%', fetchone()
get_researcher_id(researchers, name) ==
    LET hits == {i \in DOMAIN researchers :
                   IsSubstring(Lower(name), Lower(researchers[i]))}
    IN IF hits = {} THEN None ELSE Some(MinOf(hits))

\* _dedup_and_store([work], researcher_id) on the store (rows, links)
DedupAndStoreOne(rows, links, work, rid, now) ==
    LET match_id == find_match(work, get_all_works_for_matching(rows),
                               DefaultTitleThreshold)
        same == [raised |-> FALSE, rows |-> rows, links |-> links,
                 new |-> <<>>, updated |-> <<>>]
    IN IF match_id = None
       THEN LET stamped == [work EXCEPT !.first_seen = Some(now)]
            IN IF DoiConflict(rows, stamped.doi, 0)
               THEN [same EXCEPT !.raised = TRUE]
               ELSE [same EXCEPT
                       !.rows = insert_work(rows, stamped, now),
                       !.links = link_researcher_work(links, rid,
                                                      NextRowId(rows)),
                       !.new = <<stamped>>]
       ELSE LET existing_result == LookupExisting(rows, work)
            IN IF existing_result = None THEN same
               ELSE LET merged == merge_works(existing_result[2], work)
                    IN IF DoiConflict(rows, merged.doi, match_id[1])
                       THEN [same EXCEPT !.raised = TRUE]
                       ELSE [same EXCEPT
                               !.rows = update_work(rows, match_id[1],
                                                    merged, now),
                               !.links = link_researcher_work(links, rid,
                                                              match_id[1]),
                               !.updated = <<merged>>]

\* insert_alert_item: UNIQUE(message_id, position)
AlertItemConflict(items, message_id, position) ==
    \E r \in items : r.message_id = message_id /\ r.position = position

\* the loop over the items of one email; st holds the store and the
\* locals of ingest_scholar_alerts
RECURSIVE IngestItems(_, _, _, _, _)
IngestItems(st, message_id, items, rid, dry_run) ==
    IF items = <<>> THEN st
    ELSE LET item == Head(items)
             work == alert_item_to_work(item)
         IN IF dry_run
            THEN IngestItems([st EXCEPT !.new_works = Append(@, work)],
                             message_id, Tail(items), rid, dry_run)
            ELSE LET res == DedupAndStoreOne(st.works, st.researcher_works,
                                             work, rid, st.now)
                     title_result == find_work_by_title(res.rows, work.title)
                     work_id == IF (res.new # <<>> \/ res.updated # <<>>)
                                   /\ title_result # None
                                THEN Some(title_result[1]) ELSE None
                 IN IF res.raised
                       \/ AlertItemConflict(st.items, message_id,
                                            item.position)
                    THEN [st EXCEPT !.raised = TRUE,
                                    !.works = IF res.raised THEN @
                                              ELSE res.rows,
                                    !.researcher_works =
                                        IF res.raised THEN @ ELSE res.links]
                    ELSE IngestItems(
                           [st EXCEPT
                              !.works = res.rows,
                              !.researcher_works = res.links,
                              !.now = @ + 1,
                              !.new_works = @ \o res.new,
                              !.updated_works = @ \o res.updated,
                              !.items = @ \cup
                                  {[message_id |-> message_id,
                                    position |-> item.position,
                                    title |-> item.title,
                                    work_id |-> work_id]}],
                           message_id, Tail(items), rid, dry_run)

\* insert_alert_email that records the email in a dry run too
IngestEmail_always_recorded(st, alert_email, dry_run, researchers, researcher_map) ==
    IF alert_email.message_id \in st.emails
    THEN [st EXCEPT !.skipped_emails = @ + 1]
    ELSE LET items == parse_alert_html(alert_email.html_body)
             researcher_name ==
                 match_email_to_researcher(alert_email.subject,
                                           alert_email.user_ids,
                                           researcher_map)
             rid == IF TruthyStr(researcher_name)
                    THEN get_researcher_id(researchers, researcher_name)
                    ELSE None
         IN IngestItems([st EXCEPT
                           !.items_found = @ + Len(items),
                           !.emails = @ \cup {alert_email.message_id}],
                        alert_email.message_id, items, rid, dry_run)

\* one iteration of the loop over the emails
IngestEmail(st, alert_email, dry_run, researchers, researcher_map) ==
    IF alert_email.message_id \in st.emails
    THEN [st EXCEPT !.skipped_emails = @ + 1]
    ELSE LET items == parse_alert_html(alert_email.html_body)
             researcher_name ==
                 match_email_to_researcher(alert_email.subject,
                                           alert_email.user_ids,
                                           researcher_map)
             rid == IF TruthyStr(researcher_name)
                    THEN get_researcher_id(researchers, researcher_name)
                    ELSE None
         IN IngestItems([st EXCEPT
                           !.items_found = @ + Len(items),
                           !.emails = IF dry_run THEN @
                                      ELSE @ \cup {alert_email.message_id}],
                        alert_email.message_id, items, rid, dry_run)

(***************************************************************************)
(* Ingests of a mailbox that receives alert emails.                        *)
(***************************************************************************)
MaxEmails == 2

MaxIngests == 2

AlResearchers == <<R_SHAH, R_SPIRO>>

\* "u1"
U_SPIRO == <<117, 49>>

AlResearcherMap ==
    << [researcher_name |-> R_SHAH, alert_subject_prefix |-> R_SHAH,
        scholar_profile_user |-> None],
       [researcher_name |-> R_SPIRO, alert_subject_prefix |-> None,
        scholar_profile_user |-> U_SPIRO] >>

AlertEmail(message_id, subject, user_ids, html_body) ==
    [message_id |-> message_id, subject |-> subject, user_ids |-> user_ids,
     html_body |-> html_body]

AlertEntry(title, authors_raw, year) ==
    [title |-> title, authors_raw |-> authors_raw, venue |-> None,
     year |-> year]

\* "<1>": one entry; "<2>": no entry; "<3>": an entry without title text
\* and one whose title normalises like that of "<1>"
AlMails ==
    { AlertEmail(<<60, 49, 62>>, SUBJ_SHAH, {},
                 <<AlertEntry(T_PLAIN, N_JDOE, Y2025)>>),
      AlertEmail(<<60, 50, 62>>, SUBJ_DOE, {}, <<>>),
      AlertEmail(<<60, 51, 62>>, SUBJ_SPIRO, {U_SPIRO},
                 <<AlertEntry(<<32, 160>>, <<>>, None),
                   AlertEntry(T_PUNCT, <<>>, None)>>) }

\* an alert email arrives in the mailbox
Deliver(alert_email) ==
    /\ al_pc = "idle"
    /\ Len(al_mailbox) < MaxEmails
    /\ al_mailbox' = Append(al_mailbox, alert_email)
    /\ UNCHANGED <<al_emails, al_items, al_runs, al_pc, al_todo, al_cur>>
    /\ UNCHANGED <<passVars, fmVars, mgVars, nzVars, lkVars, syVars>>

AlStore ==
    [emails |-> al_emails, items |-> al_items, works |-> works,
     researcher_works |-> researcher_works]

\* entry of ingest_scholar_alerts(dry_run=dry_run) up to the loop; with
\* fetch_ok false the IMAP fetch raises and the call returns at once
BeginIngest(dry_run, fetch_ok) ==
    /\ pc = "idle"
    /\ al_pc = "idle"
    /\ Len(al_runs) < MaxIngests
    /\ al_pc' = "loop"
    /\ al_todo' = IF fetch_ok THEN al_mailbox ELSE <<>>
    /\ al_cur' = [dry_run |-> dry_run, fetch_ok |-> fetch_ok,
                  emails |-> IF fetch_ok THEN al_mailbox ELSE <<>>,
                  before |-> AlStore,
                  skipped_emails |-> 0, items_found |-> 0,
                  new_works |-> <<>>, updated_works |-> <<>>,
                  raised |-> FALSE]
    /\ UNCHANGED <<al_mailbox, al_emails, al_items, al_runs>>
    /\ UNCHANGED <<passVars, fmVars, mgVars, nzVars, lkVars, syVars>>

\* one iteration of "for alert_email in emails"
IngestNext ==
    /\ al_pc = "loop"
    /\ al_todo # <<>>
    /\ ~al_cur.raised
    /\ \E st \in { IngestEmail(
                     [emails |-> al_emails, items |-> al_items,
                      works |-> works,
                      researcher_works |-> researcher_works, now |-> clock,
                      skipped_emails |-> al_cur.skipped_emails,
                      items_found |-> al_cur.items_found,
                      new_works |-> al_cur.new_works,
                      updated_works |-> al_cur.updated_works,
                      raised |-> FALSE],
                     Head(al_todo), al_cur.dry_run, AlResearchers,
                     AlResearcherMap) } :
          /\ al_emails' = st.emails
          /\ al_items' = st.items
          /\ works' = st.works
          /\ researcher_works' = st.researcher_works
          /\ clock' = st.now
          /\ al_cur' = [al_cur EXCEPT
                          !.skipped_emails = st.skipped_emails,
                          !.items_found = st.items_found,
                          !.new_works = st.new_works,
                          !.updated_works = st.updated_works,
                          !.raised = st.raised]
    /\ al_todo' = Tail(al_todo)
    /\ UNCHANGED <<al_mailbox, al_runs, al_pc>>
    /\ UNCHANGED <<pc, existing_works, new_works, updated_works, steps,
                   researcher_id, last>>
    /\ UNCHANGED <<fmVars, mgVars, nzVars, lkVars, syVars>>

\* the loop is over, or an exception has left it: the call ends
EndIngest ==
    /\ al_pc = "loop"
    /\ al_todo = <<>> \/ al_cur.raised
    /\ al_pc' = "idle"
    /\ al_todo' = <<>>
    /\ al_runs' = Append(al_runs,
                         [dry_run |-> al_cur.dry_run,
                          fetch_ok |-> al_cur.fetch_ok,
                          emails |-> al_cur.emails,
                          before |-> al_cur.before,
                          after |-> AlStore,
                          skipped_emails |-> al_cur.skipped_emails,
                          items_found |-> al_cur.items_found,
                          new_works |-> al_cur.new_works,
                          updated_works |-> al_cur.updated_works,
                          raised |-> al_cur.raised])
    /\ al_cur' = None
    /\ UNCHANGED <<al_mailbox, al_emails, al_items>>
    /\ UNCHANGED <<passVars, fmVars, mgVars, nzVars, lkVars, syVars>>

\* "A-b-c-d f-g-h-i-x"  (normalises to T_NEAR)
T_NEAR_PUNCT == <<65, 45, 98, 45, 99, 45, 100, 32, 102, 45, 103, 45, 104, 45, 105, 45, 120>>

\* the store after a sync whose pass inserted a record titled T_NEAR_PUNCT
\* and then one titled T_PLAIN with a DOI (the summary of the first one,
\* appended in the pass, is "a-b-c-d f-g-h-i-x" and scores below the
\* threshold against "abcd fghij")
SyncedStore ==
    insert_work(
        insert_work(<< >>,
                    WithFirstSeen(Work(None, T_NEAR_PUNCT, <<>>, None), Some(1)),
                    1),
        WithFirstSeen(Work(D_LOW, T_PLAIN, <<>>, None), Some(2)), 2)

\* the ingests start on an empty store or after that sync
AlInit ==
    /\ \/ works = << >> /\ clock = 1
       \/ works = SyncedStore /\ clock = 3
    /\ researcher_works = {}
    /\ pc = "idle"
    /\ existing_works = <<>>
    /\ new_works = <<>>
    /\ updated_works = <<>>
    /\ steps = 0
    /\ researcher_id = None
    /\ last = NoIteration
    /\ FmIdle
    /\ MgIdle
    /\ NzIdle
    /\ LkIdle
    /\ AlIdle
    /\ SyIdle

AlNext ==
    \/ \E alert_email \in AlMails : Deliver(alert_email)
    \/ \E dry_run \in BOOLEAN, fetch_ok \in BOOLEAN :
          BeginIngest(dry_run, fetch_ok)
    \/ IngestNext
    \/ EndIngest

SpecAlerts == AlInit /\ [][AlNext]_vars

(***************************************************************************)
(* core.py: LabPubs.sync and _fetch_all_sources.  Both backends are        *)
(* present in self.sources.  A fetch task is running until its coroutine   *)
(* returns (works, resolved_id) or raises.                                 *)
(***************************************************************************)
OPENALEX == "openalex"

SEMANTIC_SCHOLAR == "semantic_scholar"

ResearcherConfig(name, openalex_id, semantic_scholar_id, orcid) ==
    [name |-> name, openalex_id |-> openalex_id,
     semantic_scholar_id |-> semantic_scholar_id, orcid |-> orcid]

\* the tasks list: one entry per source with a stored id or an ORCID
source_names(rc) ==
    (IF TruthyStr(rc.openalex_id) \/ TruthyStr(rc.orcid)
     THEN <<OPENALEX>> ELSE <<>>)
    \o (IF TruthyStr(rc.semantic_scholar_id) \/ TruthyStr(rc.orcid)
        THEN <<SEMANTIC_SCHOLAR>> ELSE <<>>)

Running(source) ==
    [source |-> source, state |-> "running", works |-> <<>>,
     resolved_id |-> None]

\* asyncio.gather that returns as soon as one task has ended
GatherDone_first_completed(tasks) ==
    tasks = <<>> \/ \E i \in DOMAIN tasks : tasks[i].state # "running"

\* asyncio.gather(*coros, return_exceptions=True) returns once every
\* task has returned or raised
GatherDone(tasks) ==
    \A i \in DOMAIN tasks : tasks[i].state # "running"

\* the loop over zip(source_names, results) that stops at a failed source
RECURSIVE CollectWorks_stop_at_failure(_)
CollectWorks_stop_at_failure(tasks) ==
    IF tasks = <<>> \/ Head(tasks).state = "failed" THEN <<>>
    ELSE Head(tasks).works \o CollectWorks_stop_at_failure(Tail(tasks))

\* the loop over zip(source_names, results): all_works
RECURSIVE CollectWorks(_)
CollectWorks(tasks) ==
    IF tasks = <<>> THEN <<>>
    ELSE (IF Head(tasks).state = "failed" THEN <<>> ELSE Head(tasks).works)
         \o CollectWorks(Tail(tasks))

\* _maybe_update_researcher_id on the row of the researcher
_maybe_update_researcher_id(row, rc, source_name, resolved_id) ==
    IF source_name = SEMANTIC_SCHOLAR
    THEN (IF TruthyStr(rc.semantic_scholar_id)
             /\ rc.semantic_scholar_id = resolved_id
          THEN row ELSE [row EXCEPT !.semantic_scholar_id = resolved_id])
    ELSE IF source_name = OPENALEX
    THEN (IF TruthyStr(rc.openalex_id) /\ rc.openalex_id = resolved_id
          THEN row ELSE [row EXCEPT !.openalex_id = resolved_id])
    ELSE row

\* the id updates of the loop over zip(source_names, results)
RECURSIVE CollectIds(_, _, _)
CollectIds(row, rc, tasks) ==
    IF tasks = <<>> THEN row
    ELSE CollectIds(
           IF Head(tasks).state # "failed" /\ TruthyStr(Head(tasks).resolved_id)
           THEN _maybe_update_researcher_id(row, rc, Head(tasks).source,
                                            Head(tasks).resolved_id)
           ELSE row,
           rc, Tail(tasks))

(***************************************************************************)
(* One sync over three configured researchers, the second of which is not  *)
(* in the researchers table.                                               *)
(***************************************************************************)
\* "A1", "A2", "A9", "S9", and an ORCID
ID_A1 == <<65, 49>>

ID_A2 == <<65, 50>>

ID_A9 == <<65, 57>>

ID_S9 == <<83, 57>>

ORCID_1 == <<48, 48, 48, 49>>

\* "Jo Doe"
R_DOE == <<74, 111, 32, 68, 111, 101>>

SyResearchers ==
    << ResearcherConfig(R_SHAH, ID_A1, None, ORCID_1),
       ResearcherConfig(R_DOE, ID_A2, None, None),
       ResearcherConfig(R_SPIRO, ID_A2, None, None) >>

SyStoredIds ==
    [r \in DOMAIN AlResearchers |->
        [openalex_id |-> IF r = 1 THEN ID_A1 ELSE ID_A2,
         semantic_scholar_id |-> None]]

FromSource(work, source) == [work EXCEPT !.sources = <<source>>]

\* what a backend can return: the works and the ORCID-resolved id
FetchResults(source) ==
    IF source = OPENALEX
    THEN { <<<<>>, None>>,
           <<<<FromSource(Work(D_UP, T_PLAIN, <<>>, None), OPENALEX)>>, ID_A9>>,
           <<<<FromSource(Work(D_UP, T_OTHER, <<>>, None), OPENALEX)>>, ID_A1>> }
    ELSE { <<<<>>, ID_S9>>,
           <<<<FromSource(Work(None, T_RAW, <<Author(N_JDOE)>>, Y2025),
                          SEMANTIC_SCHOLAR)>>, None>> }

\* entry of sync: the loop over the researchers begins
SyncStart ==
    /\ sy_pc = "idle"
    /\ pc = "idle"
    /\ sy_pc' = "next"
    /\ sy_ri' = 1
    /\ sy_ids' = SyStoredIds
    /\ UNCHANGED <<sy_tasks, sy_fetched, sy_log, sy_errors>>
    /\ UNCHANGED <<passVars, fmVars, mgVars, nzVars, lkVars, alVars>>

\* for rc in researchers: up to the await in _fetch_all_sources
NextResearcher ==
    /\ sy_pc = "next"
    /\ sy_ri <= Len(SyResearchers)
    /\ LET rc == SyResearchers[sy_ri]
           rid == get_researcher_id(AlResearchers, rc.name)
       IN IF rid = None
          THEN /\ sy_errors' = Append(sy_errors, rc.name)
               /\ sy_ri' = sy_ri + 1
               /\ UNCHANGED <<sy_pc, sy_tasks>>
          ELSE /\ sy_tasks' = [i \in DOMAIN source_names(rc) |->
                                  Running(source_names(rc)[i])]
               /\ sy_pc' = "gather"
               /\ UNCHANGED <<sy_ri, sy_errors>>
    /\ UNCHANGED <<sy_fetched, sy_ids, sy_log>>
    /\ UNCHANGED <<passVars, fmVars, mgVars, nzVars, lkVars, alVars>>

\* the coroutine of one source returns
FetchReturns(i, result) ==
    /\ sy_pc = "gather"
    /\ i \in DOMAIN sy_tasks
    /\ sy_tasks[i].state = "running"
    /\ sy_tasks' = [sy_tasks EXCEPT ![i] = [@ EXCEPT !.state = "returned",
                                                     !.works = result[1],
                                                     !.resolved_id = result[2]]]
    /\ UNCHANGED <<sy_pc, sy_ri, sy_fetched, sy_ids, sy_log, sy_errors>>
    /\ UNCHANGED <<passVars, fmVars, mgVars, nzVars, lkVars, alVars>>

\* the coroutine of one source raises
FetchFails(i) ==
    /\ sy_pc = "gather"
    /\ i \in DOMAIN sy_tasks
    /\ sy_tasks[i].state = "running"
    /\ sy_tasks' = [sy_tasks EXCEPT ![i] = [@ EXCEPT !.state = "failed"]]
    /\ UNCHANGED <<sy_pc, sy_ri, sy_fetched, sy_ids, sy_log, sy_errors>>
    /\ UNCHANGED <<passVars, fmVars, mgVars, nzVars, lkVars, alVars>>

\* the await of gather resumes; the results are collected, returned to
\* sync, and _dedup_and_store is entered with them
Gathered ==
    /\ sy_pc = "gather"
    /\ GatherDone(sy_tasks)
    /\ LET rc == SyResearchers[sy_ri]
           rid == get_researcher_id(AlResearchers, rc.name)
           all_works == CollectWorks(sy_tasks)
       IN /\ sy_fetched' = all_works
          /\ sy_ids' = [sy_ids EXCEPT
                          ![rid[1]] = CollectIds(@, rc, sy_tasks)]
          /\ sy_log' = Append(sy_log, [researcher |-> sy_ri,
                                       tasks |-> sy_tasks,
                                       fetched |-> all_works,
                                       ids_before |-> sy_ids[rid[1]],
                                       ids_after |->
                                          CollectIds(sy_ids[rid[1]], rc,
                                                     sy_tasks)])
          /\ researcher_id' = rid
    /\ sy_pc' = "dedup"
    /\ pc' = "loop"
    /\ existing_works' = get_all_works_for_matching(works)
    /\ new_works' = <<>>
    /\ updated_works' = <<>>
    /\ steps' = 0
    /\ last' = NoIteration
    /\ UNCHANGED <<works, researcher_works, clock>>
    /\ UNCHANGED <<sy_ri, sy_tasks, sy_errors>>
    /\ UNCHANGED <<fmVars, mgVars, nzVars, lkVars, alVars>>

\* one iteration of the loop of _dedup_and_store over the fetched works
SyncProcessWork ==
    /\ sy_pc = "dedup"
    /\ steps < Len(sy_fetched)
    /\ ProcessWork(sy_fetched[steps + 1])

\* _dedup_and_store returns; sync goes on with the next researcher
SyncEndPass ==
    /\ sy_pc = "dedup"
    /\ pc = "loop"
    /\ steps = Len(sy_fetched)
    /\ pc' = "idle"
    /\ sy_pc' = "next"
    /\ sy_ri' = sy_ri + 1
    /\ sy_tasks' = <<>>
    /\ UNCHANGED <<works, researcher_works, clock, existing_works, new_works,
                   updated_works, steps, researcher_id, last>>
    /\ UNCHANGED <<sy_fetched, sy_ids, sy_log, sy_errors>>
    /\ UNCHANGED <<fmVars, mgVars, nzVars, lkVars, alVars>>

\* an exception of the store has left _dedup_and_store, and leaves sync
SyncRaised ==
    /\ sy_pc = "dedup"
    /\ pc = "idle"
    /\ sy_pc' = "raised"
    /\ UNCHANGED <<sy_ri, sy_tasks, sy_fetched, sy_ids, sy_log, sy_errors>>
    /\ UNCHANGED <<passVars, fmVars, mgVars, nzVars, lkVars, alVars>>

\* the loop over the researchers is over: log_sync, return result
SyncDone ==
    /\ sy_pc = "next"
    /\ sy_ri > Len(SyResearchers)
    /\ sy_pc' = "done"
    /\ UNCHANGED <<sy_ri, sy_tasks, sy_fetched, sy_ids, sy_log, sy_errors>>
    /\ UNCHANGED <<passVars, fmVars, mgVars, nzVars, lkVars, alVars>>

SyNext ==
    \/ SyncStart
    \/ NextResearcher
    \/ \E i \in 1..2 : \E source \in {OPENALEX, SEMANTIC_SCHOLAR} :
          \E result \in FetchResults(source) :
             /\ i \in DOMAIN sy_tasks
             /\ sy_tasks[i].source = source
             /\ FetchReturns(i, result)
    \/ \E i \in 1..2 : FetchFails(i)
    \/ Gathered
    \/ SyncProcessWork
    \/ SyncEndPass
    \/ SyncRaised
    \/ SyncDone

SpecSync == Init /\ [][SyNext]_vars

(***************************************************************************)
(* What a summary must satisfy to be a hit of each tier, stated on one     *)
(* summary at a time.                                                      *)
(***************************************************************************)
DoiHit(c, e) == normalize_doi(c.doi) # None /\ e[3] = normalize_doi(c.doi)

TitleScore(c, e) == token_sort_ratio(normalize_title(c.title), e[2])

TitleHit(c, e) == ScoreAtLeast(TitleScore(c, e), DefaultTitleThreshold)

FallbackHit(c, e) ==
    /\ c.year # None
    /\ _extract_surnames(c) # {}
    /\ e[4] = c.year
    /\ ScoreAtLeast(TitleScore(c, e), FallbackThreshold)
    /\ _extract_surnames(c) \cap SeqToSet(e[5]) # {}

DoiHits == {i \in 1..Len(fm_list) : DoiHit(fm_cand, fm_list[i])}

TitleHits == {i \in 1..Len(fm_list) : TitleHit(fm_cand, fm_list[i])}

FallbackHits == {i \in 1..Len(fm_list) : FallbackHit(fm_cand, fm_list[i])}

FmReturned == fm_pc = "returned"

\* C1: when the candidate's normalized DOI is non-null and some summary
\* carries an equal DOI, find_match returns the id of the first such summary
\* in list order, whatever the titles, years and surnames are.
C1_DoiAuthoritative ==
    (FmReturned /\ DoiHits # {})
        => fm_res = Some(fm_list[MinOf(DoiHits)][1])

\* C1 witness: the DOI hit is second in the list, behind a summary whose
\* title scores at or above the threshold, and the DOI hit's own title
\* scores below the fallback bar.
C1_Witness ==
    /\ FmReturned
    /\ Len(fm_list) = 2
    /\ DoiHits = {2}
    /\ 1 \in TitleHits
    /\ ~ScoreAtLeast(TitleScore(fm_cand, fm_list[2]), FallbackThreshold)
    /\ fm_res = Some(fm_list[2][1])

\* C2: when no summary carries the candidate's DOI, find_match returns the
\* id of the first summary in list order whose score is >= the threshold;
\* a score below the threshold is no tier-2 hit, and a later, higher score
\* is not preferred.
C2_FirstTitleAtThreshold ==
    (FmReturned /\ DoiHits = {} /\ TitleHits # {})
        => fm_res = Some(fm_list[MinOf(TitleHits)][1])

\* C2 witness: a summary scoring 88.9 comes first and is passed over, the
\* summary scoring exactly 90 is returned, a summary scoring 100 follows.
C2_Witness ==
    /\ FmReturned
    /\ Len(fm_list) >= 2
    /\ DoiHits = {}
    /\ fm_list[1][2] = T_BELOW
    /\ FallbackHit(fm_cand, fm_list[1])
    /\ fm_list[2][2] = T_NEAR
    /\ TitleScore(fm_cand, fm_list[2]) = [sim |-> 18, len |-> 20]
    /\ fm_res = Some(fm_list[2][1])

\* C2 witness continued in the same state space: exactly-90 first, 100 later
C2_WitnessLaterHigher ==
    /\ FmReturned
    /\ Len(fm_list) = 2
    /\ DoiHits = {}
    /\ fm_list[1][2] = T_NEAR
    /\ fm_list[2][2] = T_SWAP
    /\ fm_res = Some(fm_list[1][1])

\* C3: when tiers 1 and 2 find nothing, an id is returned only for a summary
\* with the candidate's year, a score >= 80 and a shared surname, the
\* candidate having a year and a surname; if no summary is such, the result
\* is None.
C3_FallbackConditions ==
    (FmReturned /\ DoiHits = {} /\ TitleHits = {})
        => /\ fm_res # None =>
                \E i \in FallbackHits : fm_res = Some(fm_list[i][1])
           /\ FallbackHits = {} => fm_res = None

\* C3 witness: a fallback hit at exactly 80, behind a summary that fails on
\* the year only.
C3_Witness ==
    /\ FmReturned
    /\ Len(fm_list) = 2
    /\ DoiHits = {}
    /\ TitleHits = {}
    /\ fm_list[1] = <<2, T_BELOW, None, Y2024, <<S_DOE>>>>
    /\ fm_list[2] = <<1, T_LOOSE, None, Y2025, <<S_DOE>>>>
    /\ fm_res = Some(1)

\* C4: find_match returns None exactly when no summary is a hit of any
\* tier, and otherwise the id of a summary of the list.
C4_NoneIffNoHit ==
    FmReturned
        => /\ fm_res = None
                <=> (DoiHits = {} /\ TitleHits = {} /\ FallbackHits = {})
           /\ fm_res # None
                => \E i \in 1..Len(fm_list) : fm_res = Some(fm_list[i][1])

\* C4 witness: a candidate with DOI, year and surname, two summaries, and
\* no hit in any tier.
C4_Witness ==
    /\ FmReturned
    /\ Len(fm_list) = 2
    /\ normalize_doi(fm_cand.doi) # None
    /\ fm_cand.year # None
    /\ _extract_surnames(fm_cand) # {}
    /\ fm_res = None

(***************************************************************************)
(* Claims on _dedup_and_store.                                             *)
(***************************************************************************)
Iterated == last.outcome # "none"

SameText(a, b) == a # None /\ a = b

\* C5: every candidate of the batch is either inserted as a new record and
\* listed in new_works (no match), or merged into a stored record and
\* listed in updated_works (match); none is dropped.
C5_InsertedOrMerged ==
    Iterated =>
        \/ /\ last.outcome = "inserted"
           /\ last.match_id = None
           /\ new_works # <<>>
           /\ new_works[Len(new_works)].title = last.work.title
        \/ /\ last.outcome = "merged"
           /\ last.match_id # None
           /\ updated_works # <<>>
           /\ updated_works[Len(updated_works)] = last.merged

\* C6: the record handed to merge_works is the stored record with the id
\* find_match returned, so the row written to that id is built from its own
\* prior fields.
C6_MergesMatchedRecord ==
    last.outcome = "merged" =>
        /\ last.existing_id = last.match_id
        /\ last.existing = last.before

\* C7: two candidates of one pass with the same normalized DOI or the same
\* normalized title are never both inserted as new records.
C7_NoDuplicateInsertInPass ==
    \A i \in 1..Len(new_works), j \in 1..Len(new_works) :
        i < j =>
            /\ normalize_title(new_works[i].title)
                  # normalize_title(new_works[j].title)
            /\ ~SameText(normalize_doi(new_works[i].doi),
                         normalize_doi(new_works[j].doi))

\* C8: at every point of a pass each summary holds its stored record's
\* normalized title and normalized DOI (or null), for loaded and for
\* appended entries alike.
C8_SummariesNormalized ==
    pc = "loop" =>
        \A n \in 1..Len(existing_works) :
            LET e == existing_works[n]
            IN /\ e[1] \in DOMAIN works
               /\ e[2] = normalize_title(works[e[1]].title)
               /\ e[3] = normalize_doi(works[e[1]].doi)

\* C9: the set of stored ids only grows; a merge leaves the set of ids as
\* it is and changes no row but the matched one.
C9_IdsOnlyGrow ==
    [][ /\ DOMAIN works \subseteq DOMAIN works'
        /\ (steps' = steps + 1 /\ last'.outcome = "merged")
              => /\ DOMAIN works' = DOMAIN works
                 /\ \A i \in DOMAIN works \ {last'.match_id[1]} :
                        works'[i] = works[i] ]_vars

\* C9 witness: a merge into one of at least two stored records.
C9_Witness ==
    /\ last.outcome = "merged"
    /\ Cardinality(DOMAIN works) >= 2
    /\ works[last.match_id[1]].last_updated = Some(clock - 1)

\* C10: a stored record keeps the first_seen it was inserted with, and
\* merge_works returns existing.first_seen whatever the candidate's is.
C10_FirstSeenKept ==
    [][ /\ \A i \in DOMAIN works :
              i \in DOMAIN works' /\ works'[i].first_seen = works[i].first_seen
        /\ (steps' = steps + 1 /\ last'.outcome = "merged")
              => last'.merged.first_seen = last'.existing.first_seen ]_vars

\* C10 witness: a merge of a candidate whose first_seen is later than the
\* stored record's; the row still holds the time of its insert.
C10_Witness ==
    /\ last.outcome = "merged"
    /\ last.work.first_seen = Some(9)
    /\ last.existing.first_seen # None
    /\ last.existing.first_seen[1] < 9
    /\ works[last.match_id[1]].first_seen = last.existing.first_seen
    /\ works[last.match_id[1]].last_updated # works[last.match_id[1]].first_seen

(***************************************************************************)
(* The merge policy of the specification, stated on the two arguments and  *)
(* the result of one merge_works call.                                     *)
(***************************************************************************)
MgReturned == mg_pc = "returned"

\* a value that is present: neither null nor empty
IsRich(x) == x # None /\ x # <<>>

\* ends in "..." or in U+2026
IsTruncated(s) ==
    \/ Len(s) >= 1 /\ s[Len(s)] = 8230
    \/ Len(s) >= 3 /\ SubSeq(s, Len(s) - 2, Len(s)) = <<46, 46, 46>>

\* the richer of two present strings
RicherStr(a, b) ==
    IF IsTruncated(a) /\ ~IsTruncated(b) THEN b
    ELSE IF ~IsTruncated(a) /\ IsTruncated(b) THEN a
    ELSE IF Len(b) > Len(a) THEN b
    ELSE a

RECURSIVE NamesLength(_)
NamesLength(authors) ==
    IF authors = <<>> THEN 0
    ELSE Len(Head(authors).name) + NamesLength(Tail(authors))

\* the richer of two author lists
RicherAuthors(a, b) ==
    IF a = <<>> THEN b
    ELSE IF b = <<>> THEN a
    ELSE IF Len(b) > Len(a) THEN b
    ELSE IF Len(a) > Len(b) THEN a
    ELSE IF NamesLength(b) > NamesLength(a) THEN b
    ELSE a

\* C11: the merged title is the richer of the two titles: a title ending in
\* "..." or U+2026 loses to one that does not, otherwise the longer title
\* wins, and on equal length existing's title is kept.
C11_RicherTitle ==
    MgReturned =>
        mg_res.title = RicherStr(mg_existing.title, mg_new.title)

\* C12: the merged author list is the richer of the two lists: an empty list
\* loses to a non-empty one, otherwise the list with more authors wins, on
\* equal count the list with the greater total name length wins, and on an
\* exact tie existing's list is kept.
C12_RicherAuthors ==
    MgReturned =>
        mg_res.authors = RicherAuthors(mg_existing.authors, mg_new.authors)

\* C13: the merged venue is the richer of the two venues: a null or empty
\* venue loses to a non-empty one, a venue ending in an ellipsis loses to one
\* that does not, otherwise the longer venue wins, and on equal length
\* existing's venue is kept.
C13_RicherVenue ==
    MgReturned =>
        LET a == mg_existing.venue
            b == mg_new.venue
        IN /\ (~IsRich(a) /\ IsRich(b)) => mg_res.venue = b
           /\ (IsRich(a) /\ ~IsRich(b)) => mg_res.venue = a
           /\ (IsRich(a) /\ IsRich(b)) => mg_res.venue = RicherStr(a, b)

NoRepeat(xs) == \A i, j \in 1..Len(xs) : xs[i] = xs[j] => i = j

\* position of the first occurrence of v in xs
FirstIndex(xs, v) == MinOf({k \in 1..Len(xs) : xs[k] = v})

\* C14: the merged sources hold every source of either argument once:
\* existing's sources in their order, then those of new's sources that are
\* not already present, in their order.
C14_SourcesUnion ==
    MgReturned =>
        LET e == mg_existing.sources
            n == mg_new.sources
            m == mg_res.sources
        IN /\ NoRepeat(m)
           /\ SeqToSet(m) = SeqToSet(e) \cup SeqToSet(n)
           /\ NoRepeat(e) => SubSeq(m, 1, Len(e)) = e
           /\ \A i, j \in 1..Len(m) :
                 i < j => FirstIndex(e \o n, m[i]) < FirstIndex(e \o n, m[j])

\* C14 witness: the arguments share one source and each has one of its own.
C14_Witness ==
    /\ MgReturned
    /\ mg_existing.sources = <<"openalex", "crossref">>
    /\ mg_new.sources = <<"crossref", "semantic_scholar">>
    /\ mg_res.sources = <<"openalex", "crossref", "semantic_scholar">>

\* a citation count with a missing one taken as 0
CountOf(x) == IF x = None THEN 0 ELSE x[1]

\* C15: the merged citation_count is the larger of the two counts, a missing
\* count taken as 0, and null when that is 0; it is lower than neither count.
C15_CitationMax ==
    MgReturned =>
        LET a == CountOf(mg_existing.citation_count)
            b == CountOf(mg_new.citation_count)
            m == mg_res.citation_count
        IN /\ (a = 0 /\ b = 0) => m = None
           /\ (a > 0 \/ b > 0) => m # None /\ m[1] \in {a, b}
           /\ CountOf(m) >= a
           /\ CountOf(m) >= b

\* C15 witness: the candidate's count is the larger one and is taken.
C15_Witness ==
    /\ MgReturned
    /\ mg_existing.citation_count = Some(1)
    /\ mg_new.citation_count = Some(3)
    /\ mg_res.citation_count = Some(3)

IdsOf(items) == {items[i].openalex_id : i \in 1..Len(items)}

\* merged holds every id of e and n once, with e's copy for an id of e
UnionByIdLeft(e, n, merged) ==
    /\ IdsOf(merged) = IdsOf(e) \cup IdsOf(n)
    /\ \A i, j \in 1..Len(merged) :
          merged[i].openalex_id = merged[j].openalex_id => i = j
    /\ \A i \in 1..Len(merged) :
          IF merged[i].openalex_id \in IdsOf(e)
          THEN merged[i] \in SeqToSet(e)
          ELSE merged[i] \in SeqToSet(n)

\* C16: the merged awards, and likewise the merged funders, hold every
\* openalex_id of either argument exactly once, and for an id of both
\* arguments the item kept is existing's.
C16_AwardsFundersUnion ==
    MgReturned =>
        /\ UnionByIdLeft(mg_existing.awards, mg_new.awards, mg_res.awards)
        /\ UnionByIdLeft(mg_existing.funders, mg_new.funders, mg_res.funders)

\* C16 witness: both arguments hold award A1, with different contents, and
\* the candidate alone holds A2.
C16_Witness ==
    /\ MgReturned
    /\ mg_existing.awards = <<Award("A1", "x")>>
    /\ mg_new.awards = <<Award("A1", "y"), Award("A2", "y")>>
    /\ mg_res.awards = <<Award("A1", "x"), Award("A2", "y")>>

\* C17: for doi, year, publication_date, abstract, tldr, openalex_id,
\* semantic_scholar_id and open_access_url the merged value is existing's
\* when existing has one (for a string: a non-empty one), and the
\* candidate's otherwise.
C17_LeftBiased ==
    MgReturned =>
        /\ \A f \in LeftBiasedStrings :
              mg_res[f] = IF IsRich(mg_existing[f]) THEN mg_existing[f]
                          ELSE mg_new[f]
        /\ \A f \in {"year", "publication_date"} :
              mg_res[f] = IF mg_existing[f] # None THEN mg_existing[f]
                          ELSE mg_new[f]

\* C17 witness: both arguments have a DOI and a year, and they differ.
C17_Witness ==
    /\ MgReturned
    /\ mg_existing.doi = D_LOW
    /\ mg_new.doi = D_TWO
    /\ mg_res.doi = D_LOW
    /\ mg_existing.year = Y2024
    /\ mg_new.year = Y2025
    /\ mg_res.year = Y2024

\* C18: the merged work_type is existing's, except that the candidate's is
\* taken when existing's is WorkType.OTHER and the candidate's is not.
C18_WorkTypeSentinel ==
    MgReturned =>
        mg_res.work_type =
            IF mg_existing.work_type = WT_OTHER /\ mg_new.work_type # WT_OTHER
            THEN mg_new.work_type
            ELSE mg_existing.work_type

\* C18 witness: an unclassified existing record takes the candidate's type.
C18_Witness ==
    /\ MgReturned
    /\ mg_existing.work_type = WT_OTHER
    /\ mg_new.work_type = "preprint"
    /\ mg_res.work_type = "preprint"

(***************************************************************************)
(* The normalisers, stated on the argument and the result of one call.     *)
(***************************************************************************)
\* C19: normalize_title is idempotent: applied to its own result it returns
\* that result.
C19_TitleIdempotent == nz_pc = "twice" => nz_again = nz_out

\* <<a, b>>: x[a..b] is x without its leading and trailing whitespace
TrimBounds(x) ==
    { ab \in (1..(Len(x) + 1)) \X (0..Len(x)) :
        /\ \A k \in 1..(ab[1] - 1) : IsSpace(x[k])
        /\ \A k \in (ab[2] + 1)..Len(x) : IsSpace(x[k])
        /\ \/ ab[1] > ab[2]
           \/ ~IsSpace(x[ab[1]]) /\ ~IsSpace(x[ab[2]]) }

\* x trimmed and lower-cased
LowerTrims(x) ==
    { [k \in 1..(IF ab[1] > ab[2] THEN 0 ELSE ab[2] - ab[1] + 1) |->
          LowerChar(x[ab[1] + k - 1])] : ab \in TrimBounds(x) }

\* rest is t without one leading "http://doi.org/" or "https://doi.org/"
IsWithoutUrlPrefix(rest, t) ==
    \/ t = HttpDoiPrefix \o rest
    \/ t = HttpsDoiPrefix \o rest
    \/ /\ rest = t
       /\ \A r \in 0..Len(t) :
             LET tail == SubSeq(t, Len(t) - r + 1, Len(t))
             IN t # HttpDoiPrefix \o tail /\ t # HttpsDoiPrefix \o tail

\* C20: normalize_doi returns null for null; otherwise its result is the
\* argument lower-cased and trimmed, without one leading http://doi.org/ or
\* https://doi.org/, and null when nothing remains.
C20_NormalizeDoi ==
    nz_pc = "once" =>
        IF nz_in = None THEN nz_out = None
        ELSE /\ nz_out # <<>>
             /\ LowerTrims(nz_in) # {}
             /\ \A t \in LowerTrims(nz_in) :
                   IsWithoutUrlPrefix(IF nz_out = None THEN <<>> ELSE nz_out, t)

\* C20 witness: an upper-case URL form inside whitespace; the result is the
\* lower-cased body.
C20_Witness ==
    /\ nz_pc = "once"
    /\ nz_in = <<32>> \o UpperDoiPrefix \o <<49, 88>> \o <<32>>
    /\ nz_out = <<49, 120>>

\* positions where a token of s starts
TokenStarts(s) ==
    {i \in 1..Len(s) : ~IsSpace(s[i]) /\ (i = 1 \/ IsSpace(s[i - 1]))}

\* positions where a token of s ends
TokenEnds(s) ==
    {i \in 1..Len(s) : ~IsSpace(s[i]) /\ (i = Len(s) \/ IsSpace(s[i + 1]))}

\* C21: split_author_name returns (null, null) for a name without a token,
\* (null, token) for a name of one token, and otherwise the last token as
\* family name and the tokens before it, joined by single spaces, as given
\* names.
C21_SplitAuthorName ==
    nz_pc = "once" =>
        LET starts == TokenStarts(nz_in)
            ends == TokenEnds(nz_in)
            given == nz_out[1]
            family == nz_out[2]
        IN /\ starts = {} => given = None /\ family = None
           /\ starts # {} =>
                 family = SubSeq(nz_in, MaxOf(starts), MaxOf(ends))
           /\ Cardinality(starts) = 1 => given = None
           /\ Cardinality(starts) >= 2 =>
                 /\ given # None
                 /\ Cardinality(TokenStarts(given)) = Cardinality(starts) - 1
                 /\ 1 \in TokenStarts(given) /\ Len(given) \in TokenEnds(given)
                 /\ \A i \in 1..Len(given) : IsSpace(given[i]) =>
                       given[i] = 32 /\ ~IsSpace(given[i + 1])
                 \* the k-th token of given is the k-th token of the name
                 /\ \A a \in TokenStarts(given) :
                       LET k == Cardinality({x \in TokenStarts(given) : x <= a})
                           b == MinOf({x \in TokenEnds(given) : x >= a})
                           a0 == CHOOSE x \in starts :
                                    Cardinality({y \in starts : y <= x}) = k
                           b0 == MinOf({x \in ends : x >= a0})
                       IN SubSeq(given, a, b) = SubSeq(nz_in, a0, b0)

\* C21 witness: three tokens separated by a tab and a space.
C21_Witness ==
    /\ nz_pc = "once"
    /\ nz_in = <<74, 9, 100, 32, 74>>
    /\ nz_out = <<<<74, 32, 100>>, <<74>>>>

(***************************************************************************)
(* Claims on link_scholar_works.                                           *)
(***************************************************************************)
\* C22: a run of link_scholar_works that follows another run on the same
\* database adds no row to researcher_works and returns 0.
C22_SecondRunNoop ==
    Len(lk_rets) >= 2 =>
        /\ lk_rets[Len(lk_rets)] = 0
        /\ lk_links = lk_before

\* C22 witness: the first run linked two works, the second run none.
C22_Witness ==
    /\ Len(lk_rets) = 2
    /\ lk_rets[1] = 2
    /\ lk_rets[2] = 0
    /\ Cardinality(lk_links) >= 2

\* the rows the last run added
LkCreated == lk_links \ lk_before

\* some alert item of work w has a subject that resolves to researcher r
AlertResolves(r, w) ==
    \E it \in lk_items :
        /\ it[1] = Some(w)
        /\ match_alert_name_to_researcher(
               Replace(it[2], NewArticlesSuffix, <<>>), LkResearchers)
             = LkResearchers[r]

\* some author of work w matches researcher r
AuthorMatches(r, w) ==
    \E i \in 1..Len(lk_authors[w]) :
        matches_author_initials(lk_authors[w][i], LkResearchers[r])

\* C23 as stated: link_scholar_works links researcher r and work w only if
\* an alert subject of w resolves to r and some author of w matches r.
C23_LinkedOnlyIfAuthored ==
    \A l \in LkCreated : AlertResolves(l[1], l[2]) /\ AuthorMatches(l[1], l[2])

\* C23 amended: link_scholar_works links researcher r and work w only if an
\* alert subject of w resolves to r and either some author of w matches r
\* or w has no author at all; a work whose recorded authors all fail to
\* match the researcher is never linked to that researcher.
C23_LinkedOnlyIfAuthoredOrAuthorless ==
    \A l \in LkCreated :
        /\ AlertResolves(l[1], l[2])
        /\ AuthorMatches(l[1], l[2]) \/ lk_authors[l[2]] = <<>>

\* C23 witness: work 1, written by "C Shah", is linked to researcher 1, and
\* work 2, under the same alert but written by "J Doe", is not.
C23_Witness ==
    /\ Len(lk_rets) = 1
    /\ lk_authors[1] = <<N_CSHAH>>
    /\ lk_authors[2] = <<N_JDOE>>
    /\ <<Some(1), SUBJ_SHAH>> \in lk_items
    /\ <<Some(2), SUBJ_SHAH>> \in lk_items
    /\ LkCreated = {<<1, 1>>}

(***************************************************************************)
(* Claims on merges into verified records.                                 *)
(***************************************************************************)
VerificationFields == {"verified", "verified_by", "verified_at",
                       "verification_issue_url", "notes", "linked_resources"}

\* C24: a merge leaves the verification data and the linked resources of
\* the stored record it updates as they were.
C24_VerificationKept ==
    [][ (steps' = steps + 1 /\ last'.outcome = "merged")
           => \A f \in VerificationFields :
                 works'[last'.match_id[1]][f] = works[last'.match_id[1]][f]
      ]_vars

(***************************************************************************)
(* Claims on DOIs acquired by a merge.                                     *)
(***************************************************************************)
\* C25: a candidate whose DOI a stored record already holds, be it through
\* an earlier merge of the same pass, is merged into that record, and no
\* insert of a DOI that a stored record holds is attempted.
C25_MergedDoiMatched ==
    [][ steps' = steps + 1 =>
           /\ last'.outcome # "insert_failed"
           /\ \A i \in DOMAIN works :
                 (works[i].doi # None /\ works[i].doi = last'.work.doi)
                    => last'.outcome = "merged" /\ last'.match_id = Some(i)
      ]_vars

(***************************************************************************)
(* Claims on ingest_scholar_alerts.                                        *)
(***************************************************************************)
\* a call that ended stored nothing and counted every email as skipped
SkippedAll(run) ==
    /\ run.after = run.before
    /\ run.new_works = <<>>
    /\ run.updated_works = <<>>
    /\ run.skipped_emails = Len(run.emails)

\* C26: a real (not dry) ingest skips, without storing anything, the emails
\* whose Message-ID is recorded already, so that the second of two real
\* ingests of the same emails stores nothing and counts every email as
\* skipped.
C26_SecondIngestSkipsAll ==
    /\ \A i \in 1..Len(al_runs) :
          (/\ ~al_runs[i].dry_run
           /\ \A k \in 1..Len(al_runs[i].emails) :
                 al_runs[i].emails[k].message_id \in al_runs[i].before.emails)
             => SkippedAll(al_runs[i])
    /\ \A i \in 2..Len(al_runs) :
          (/\ ~al_runs[i - 1].dry_run /\ al_runs[i - 1].fetch_ok
           /\ ~al_runs[i].dry_run /\ al_runs[i].fetch_ok
           /\ al_runs[i].emails = al_runs[i - 1].emails)
             => SkippedAll(al_runs[i])

\* the positions of run.emails whose Message-ID is in recorded, or is that
\* of an earlier email of the list
Repeats(run, recorded) ==
    {k \in 1..Len(run.emails) :
        \/ run.emails[k].message_id \in recorded
        \/ \E j \in 1..(k - 1) :
              run.emails[j].message_id = run.emails[k].message_id}

\* C29: a dry run writes no alert email, alert item, work or
\* researcher-work link; a real ingest of the same emails right after it
\* skips no email but those recorded before the dry run or repeated in the
\* list, and processes and records the first email of the list when that
\* one was not recorded.
C29_DryRunLeavesStore ==
    \A i \in 1..Len(al_runs) :
       al_runs[i].dry_run =>
          /\ al_runs[i].after = al_runs[i].before
          /\ (/\ i < Len(al_runs)
              /\ ~al_runs[i + 1].dry_run
              /\ al_runs[i + 1].fetch_ok
              /\ al_runs[i + 1].emails = al_runs[i].emails)
                => LET real == al_runs[i + 1]
                       repeats == Repeats(real, al_runs[i].before.emails)
                   IN /\ real.skipped_emails <= Cardinality(repeats)
                      /\ ~real.raised
                           => /\ real.skipped_emails = Cardinality(repeats)
                              /\ \A k \in 1..Len(real.emails) :
                                    real.emails[k].message_id
                                       \in real.after.emails
                      /\ (real.emails # <<>> /\ 1 \notin repeats)
                           => real.emails[1].message_id \in real.after.emails

\* a dry run that found an item, then a real ingest of the same emails
\* that skipped none of them and stored a new work and its alert item
C29_Witness ==
    \E i \in 1..(Len(al_runs) - 1) :
       /\ al_runs[i].dry_run
       /\ al_runs[i].fetch_ok
       /\ al_runs[i].items_found > 0
       /\ al_runs[i].new_works # <<>>
       /\ ~al_runs[i + 1].dry_run
       /\ al_runs[i + 1].emails = al_runs[i].emails
       /\ al_runs[i + 1].skipped_emails = 0
       /\ al_runs[i + 1].new_works # <<>>
       /\ al_runs[i + 1].after.items # {}
       /\ al_runs[i + 1].after.emails # {}

(***************************************************************************)
(* Claims on sync and _fetch_all_sources.                                  *)
(***************************************************************************)
\* C27: every configured source of the researcher at hand has a fetch task
\* and the tasks run side by side; a fetch runs only while no dedup pass
\* does, a pass is entered only when every task of the researcher has
\* returned or failed, and the researchers are gathered in their order.
C27_FetchThenDedup ==
    /\ sy_pc = "gather" =>
          [i \in DOMAIN sy_tasks |-> sy_tasks[i].source]
             = source_names(SyResearchers[sy_ri])
    /\ \A i \in DOMAIN sy_tasks :
          sy_tasks[i].state = "running" => sy_pc = "gather" /\ pc = "idle"
    /\ pc = "loop" =>
          /\ sy_pc = "dedup"
          /\ \A i \in DOMAIN sy_tasks : sy_tasks[i].state # "running"
    /\ \A k \in DOMAIN sy_log :
          /\ \A i \in DOMAIN sy_log[k].tasks :
                sy_log[k].tasks[i].state # "running"
          /\ \A j \in 1..(k - 1) :
                sy_log[j].researcher < sy_log[k].researcher

\* the pass of the third researcher is at work; the first researcher had
\* two fetches, which ended before his pass began
C27_Witness ==
    /\ pc = "loop"
    /\ steps = 1
    /\ Len(sy_log) = 2
    /\ Len(sy_log[1].tasks) = 2
    /\ sy_log[1].fetched # <<>>
    /\ sy_ri = 3

IdColumn(ids, source) ==
    IF source = OPENALEX THEN ids.openalex_id ELSE ids.semantic_scholar_id

\* C28: of every _fetch_all_sources call, the works of each source that
\* returned are among the works returned and handed to _dedup_and_store,
\* a source that raised adds no work and leaves its id of the researcher
\* as it was, and only an exception of the store, never one of a fetch,
\* keeps sync from going through all researchers.
C28_FailedSourceSkipped ==
    /\ \A k \in DOMAIN sy_log :
          \A i \in DOMAIN sy_log[k].tasks :
             LET task == sy_log[k].tasks[i]
             IN /\ task.state = "returned" =>
                      \A w \in SeqToSet(task.works) :
                         w \in SeqToSet(sy_log[k].fetched)
                /\ task.state = "failed" =>
                      /\ \A w \in SeqToSet(sy_log[k].fetched) :
                            w.sources # <<task.source>>
                      /\ IdColumn(sy_log[k].ids_after, task.source)
                            = IdColumn(sy_log[k].ids_before, task.source)
    /\ sy_pc = "dedup" =>
          /\ sy_fetched = sy_log[Len(sy_log)].fetched
          /\ (pc = "loop" /\ steps >= 1) => last.work = sy_fetched[steps]
    /\ sy_pc = "raised" => last.outcome \in {"insert_failed", "update_failed"}
    /\ sy_pc = "done" =>
          {sy_log[k].researcher : k \in DOMAIN sy_log}
             = {r \in DOMAIN SyResearchers :
                   get_researcher_id(AlResearchers, SyResearchers[r].name)
                      # None}

\* sync is through: for the first researcher one source raised and the
\* work of the other one was handed on, and the third researcher was
\* fetched after that
C28_Witness ==
    /\ sy_pc = "done"
    /\ Len(sy_log) = 2
    /\ sy_log[1].tasks[1].state = "failed"
    /\ sy_log[1].tasks[2].state = "returned"
    /\ sy_log[1].fetched = sy_log[1].tasks[2].works
    /\ sy_log[1].fetched # <<>>
    /\ sy_log[2].researcher = 3
    /\ DOMAIN works # {}

\* C30: merge_works is idempotent in the candidate: once the merged record
\* has been merged with the same candidate a second time, the second result
\* equals the first in every field of Work
C30_MergeIdempotent ==
    mg_pc = "twice" => \A f \in WorkFields : mg_again[f] = mg_res[f]

\* the first merge took a funder, an award, a source and the citation count
\* from the candidate, and the second merge has returned
C30_Witness ==
    /\ mg_pc = "twice"
    /\ Len(mg_res.funders) > Len(mg_existing.funders)
    /\ Len(mg_res.awards) > Len(mg_existing.awards)
    /\ Len(mg_res.sources) > Len(mg_existing.sources)
    /\ mg_res.citation_count # mg_existing.citation_count
    /\ mg_again = mg_res

====
